---- MODULE Spec2Model ----
(***************************************************************************)
(* Elemental Survivors, Phase 1 core engine: Vector2, MathUtils, Input,    *)
(* Renderer, Game (game loop) and the entry point, and the simulation of a *)
(* run that the configuration and the entity interfaces are written for.   *)
(*                                                                         *)
(* A JavaScript `number` is an IEEE 754 double and its arithmetic is       *)
(* computed as the machine computes it; a string is a sequence of UTF-16   *)
(* code units.  The amounts of the simulated systems that the repository   *)
(* only configures (times, hit points, experience) are counted in          *)
(* thousandths.                                                            *)
(***************************************************************************)
EXTENDS Integers, Sequences, FiniteSets, TLC

VARIABLES
    pc,             \* entry point: "load" before it runs, then "ready" or "failed"
    canvas,         \* the page: is #game-canvas present, does it yield a 2D context
    error,          \* message of the Error the entry point threw, or "none"
    game,           \* the fields of the Game instance
    now,            \* performance.now(), in whole milliseconds
    rafPending,     \* gameLoop callbacks registered with requestAnimationFrame
    console,        \* the messages written to the console, in order
    loggerEnabled,  \* Logger.enabled
    pageCalls,      \* calls of start(), stop() and setEnabled() the page has made
    calls,          \* calls and field writes made by the last handler that entered gameLoop
    keys,           \* Input.keys
    mousePosition,  \* Input.mousePosition
    mousePressed,   \* Input.mousePressed
    lastEvent,      \* the handler that ran last
    va, vb,         \* Vector2 library checks: the operands
    out,            \* library checks: the last result
    args,           \* checks of the other pure helpers: the arguments
    sim             \* the simulation of a run: scheduler, entities, progression

gameVars == <<pc, canvas, error, game, now, rafPending, console, loggerEnabled,
              pageCalls,
              calls>>
inputVars == <<keys, mousePosition, mousePressed>>
vecVars == <<va, vb, out>>
simVars == <<args, sim>>
vars == <<pc, canvas, error, game, now, rafPending, console, loggerEnabled,
          pageCalls, calls,
          keys, mousePosition, mousePressed, lastEvent, va, vb, out,
          args, sim>>

(***************************************************************************)
(* Numbers.  A JavaScript `number` is an IEEE 754 double: a sign and, for  *)
(* a finite number, the magnitude man * 2^exp, where man is a natural      *)
(* number below 2^53 written as four digits in base 2^14, the least        *)
(* significant first.  The form is unique: man is at least 2^52 unless exp *)
(* is MinExp (zero and the subnormal numbers).  Infinity has the exponent  *)
(* MaxExp + 1 and NaN the exponent MaxExp + 2.  Every operator computes    *)
(* the exact result and rounds it to nearest, ties to even.                *)
(***************************************************************************)
\* base of the digits of a mantissa
Base == 16384

MantissaBits == 53

\* exponent of the lowest place of the subnormal numbers
MinExp == -1074

\* exponent of the lowest place of the largest finite numbers
MaxExp == 971

Double(neg, exp, man) == [neg |-> neg, exp |-> exp, man |-> man]

Infinity(neg) == Double(neg, MaxExp + 1, <<0, 0, 0, 0>>)

NaN == Double(FALSE, MaxExp + 2, <<0, 0, 0, 0>>)

Zero == Double(FALSE, MinExp, <<0, 0, 0, 0>>)

\* -0
MinusZero == Double(TRUE, MinExp, <<0, 0, 0, 0>>)

IsNaN(x) == x.exp = MaxExp + 2

IsInfinite(x) == x.exp = MaxExp + 1

IsFinite(x) == x.exp <= MaxExp

IsZero(x) == x.exp = MinExp /\ x.man = <<0, 0, 0, 0>>

\* F(e), e being evaluated once: const v = e; return F(v)
With(e, F(_)) == CHOOSE r \in {F(v) : v \in {e}} : TRUE

Abs(a) == IF a < 0 THEN -a ELSE a

MathMax(a, b) == IF a >= b THEN a ELSE b

MathMin(a, b) == IF a <= b THEN a ELSE b

\* digit i of a natural number held as a sequence of digits
Digit(n, i) == IF i >= 1 /\ i <= Len(n) THEN n[i] ELSE 0

\* the digits of the sum of s[j] * Base^(j-1) from place i on, c being
\* carried in; the last element is what is carried out (negative when the
\* sum is)
RECURSIVE CarryFrom(_, _, _)
CarryFrom(s, i, c) ==
    IF i > Len(s) THEN <<c>>
    ELSE <<(s[i] + c) % Base>> \o CarryFrom(s, i + 1, (s[i] + c) \div Base)

Digits(s) == CarryFrom(s, 1, 0)

\* number of binary places of a digit
BitLength14(d) ==
    IF d = 0 THEN 0 ELSE CHOOSE k \in 1..14 : 2 ^ (k - 1) <= d /\ d < 2 ^ k

TopIndex(n) ==
    IF \A i \in 1..Len(n) : n[i] = 0 THEN 0
    ELSE CHOOSE i \in 1..Len(n) : n[i] # 0 /\ \A j \in (i + 1)..Len(n) : n[j] = 0

\* number of binary places of a natural number
BitLength(n) ==
    With(TopIndex(n), LAMBDA top :
        IF top = 0 THEN 0 ELSE 14 * (top - 1) + BitLength14(n[top]))

\* n * 2^t, in len digits
ShiftLeft(n, t, len) ==
    LET q == t \div 14
        r == t % 14
    IN  [i \in 1..len |->
            ((Digit(n, i - q) * 2 ^ r) % Base) + (Digit(n, i - q - 1) \div 2 ^ (14 - r))]

\* n \div 2^s, in len digits
ShiftRight(n, s, len) ==
    LET q == s \div 14
        r == s % 14
    IN  [i \in 1..len |->
            (Digit(n, i + q) \div 2 ^ r) + ((Digit(n, i + q + 1) % 2 ^ r) * 2 ^ (14 - r))]

\* the binary place p of n
Bit(n, p) == (Digit(n, p \div 14 + 1) \div 2 ^ (p % 14)) % 2

\* n has a place below p
LowPlaces(n, p) ==
    \/ Digit(n, p \div 14 + 1) % 2 ^ (p % 14) # 0
    \/ \E i \in 1..MathMin(p \div 14, Len(n)) : n[i] # 0

\* a finite number, or Infinity when the exponent is out of range
Finite(neg, exp, man) ==
    IF exp > MaxExp THEN Infinity(neg) ELSE Double(neg, exp, man)

\* n \div 2^s rounded to nearest, ties to even, in five digits
RoundShift(n, s) ==
    With(ShiftRight(n, s, 4), LAMBDA kept :
        IF Bit(n, s - 1) = 1 /\ (LowPlaces(n, s - 1) \/ kept[1] % 2 = 1)
        THEN Digits(<<kept[1] + 1, kept[2], kept[3], kept[4]>>)
        ELSE kept)

\* the double nearest to n * 2^e for n of len binary places
RoundPlaces(neg, n, e, len) ==
    IF len = 0 THEN Double(neg, MinExp, <<0, 0, 0, 0>>)
    ELSE IF len <= MantissaBits /\ e >= MinExp
    THEN With(MathMin(MantissaBits - len, e - MinExp), LAMBDA t :
             Finite(neg, e - t, ShiftLeft(n, t, 4)))
    ELSE With(MathMax(len - MantissaBits, MinExp - e), LAMBDA s :
         With(RoundShift(n, s), LAMBDA m :
             IF m[4] = 2048 THEN Finite(neg, e + s + 1, <<0, 0, 0, 1024>>)
             ELSE Finite(neg, e + s, SubSeq(m, 1, 4))))

\* the double nearest to n * 2^e, ties to even
Round(neg, n, e) == With(n, LAMBDA m : RoundPlaces(neg, m, e, BitLength(m)))

\* the double of an integer literal
FromInt(n) ==
    Round(n < 0, <<Abs(n) % Base, (Abs(n) \div Base) % Base, Abs(n) \div (Base * Base)>>, 0)

Negate(x) == IF IsNaN(x) THEN x ELSE Double(~x.neg, x.exp, x.man)

\* Math.abs(x)
DoubleAbs(x) == Double(FALSE, x.exp, x.man)

\* |x| < |y|, for numbers that are not NaN
MagLess(x, y) ==
    \/ x.exp < y.exp
    \/ /\ x.exp = y.exp
       /\ \E i \in 1..4 : x.man[i] < y.man[i] /\ \A j \in (i + 1)..4 : x.man[j] = y.man[j]

\* |a| + |b| for finite a and b, a.exp >= b.exp; the places of b more than
\* 56 below those of a do not reach the rounding of a
MagPlus(neg, a, b) ==
    IF a.exp - b.exp > 56 THEN Double(neg, a.exp, a.man)
    ELSE With(ShiftLeft(a.man, a.exp - b.exp, 8), LAMBDA wide :
             Round(neg, Digits([i \in 1..8 |-> wide[i] + Digit(b.man, i)]), b.exp))

\* |a| - |b| for finite a and b, |a| > |b|
MagMinus(neg, a, b) ==
    IF a.exp - b.exp > 56 THEN Double(neg, a.exp, a.man)
    ELSE With(ShiftLeft(a.man, a.exp - b.exp, 8), LAMBDA wide :
             Round(neg, Digits([i \in 1..8 |-> wide[i] - Digit(b.man, i)]), b.exp))

\* x + y
DoublePlus(x, y) ==
    IF IsNaN(x) \/ IsNaN(y) THEN NaN
    ELSE IF IsInfinite(x) THEN (IF IsInfinite(y) /\ x.neg # y.neg THEN NaN ELSE x)
    ELSE IF IsInfinite(y) THEN y
    ELSE IF x.neg = y.neg
         THEN (IF x.exp >= y.exp THEN MagPlus(x.neg, x, y) ELSE MagPlus(x.neg, y, x))
    ELSE IF x.exp = y.exp /\ x.man = y.man THEN Zero
    ELSE IF MagLess(x, y) THEN MagMinus(y.neg, y, x)
    ELSE MagMinus(x.neg, x, y)

\* x - y
DoubleMinus(x, y) == DoublePlus(x, Negate(y))

\* the product of two four-digit numbers
Product(a, b) ==
    Digits([k \in 1..7 |->
               a[1] * Digit(b, k) + a[2] * Digit(b, k - 1)
                   + a[3] * Digit(b, k - 2) + a[4] * Digit(b, k - 3)])

\* x * y
DoubleTimes(x, y) ==
    IF IsNaN(x) \/ IsNaN(y) THEN NaN
    ELSE IF IsInfinite(x) \/ IsInfinite(y)
         THEN (IF IsZero(x) \/ IsZero(y) THEN NaN ELSE Infinity(x.neg # y.neg))
    ELSE Round(x.neg # y.neg, Product(x.man, y.man), x.exp + y.exp)

\* a finite number other than zero with its mantissa brought to 53 places,
\* whatever the exponent this takes
Normal(x) ==
    With(MantissaBits - BitLength(x.man), LAMBDA t :
        [man |-> ShiftLeft(x.man, t, 4), exp |-> x.exp - t])

\* one digit of a quotient: the largest q with q * v <= wide, for wide below
\* v * Base and the highest of the four digits of v at least Base / 2; the
\* first guess is never too small
RECURSIVE QuotientDigit(_, _, _)
QuotientDigit(wide, v, q) ==
    With(Digits([i \in 1..5 |-> wide[i] - q * Digit(v, i)]), LAMBDA left :
        IF left[6] < 0 THEN QuotientDigit(wide, v, q - 1)
        ELSE [q |-> q, rem |-> SubSeq(left, 1, 4)])

DivideStep(rem, v) ==
    QuotientDigit(<<0>> \o rem, v, MathMin(Base - 1, (rem[4] * Base + rem[3]) \div v[4]))

\* the quotient of two mantissas of 53 places: 56 or 55 places of it and one
\* more place that is set when the division leaves a remainder
Quotient(a, b) ==
    With(ShiftLeft(b, 3, 4), LAMBDA v :
    With(DivideStep(ShiftLeft(a, 2, 4), v), LAMBDA s1 :
    With(DivideStep(s1.rem, v), LAMBDA s2 :
    With(DivideStep(s2.rem, v), LAMBDA s3 :
    With(DivideStep(s3.rem, v), LAMBDA s4 :
        Digits(<<2 * s4.q + (IF s4.rem = <<0, 0, 0, 0>> THEN 0 ELSE 1),
                 2 * s3.q, 2 * s2.q, 2 * s1.q>>))))))

\* x / y
DoubleDiv(x, y) ==
    IF IsNaN(x) \/ IsNaN(y) THEN NaN
    ELSE IF IsInfinite(x) THEN (IF IsInfinite(y) THEN NaN ELSE Infinity(x.neg # y.neg))
    ELSE IF IsInfinite(y) THEN Double(x.neg # y.neg, MinExp, <<0, 0, 0, 0>>)
    ELSE IF IsZero(y) THEN (IF IsZero(x) THEN NaN ELSE Infinity(x.neg # y.neg))
    ELSE IF IsZero(x) THEN Double(x.neg # y.neg, MinExp, <<0, 0, 0, 0>>)
    ELSE With(Normal(x), LAMBDA a :
         With(Normal(y), LAMBDA b :
             Round(x.neg # y.neg, Quotient(a.man, b.man), a.exp - b.exp - 56)))

RECURSIVE SqrtSearch(_, _, _)
SqrtSearch(n, lo, hi) ==
    IF lo >= hi THEN lo
    ELSE LET mid == (lo + hi + 1) \div 2
         IN  IF mid * mid <= n THEN SqrtSearch(n, mid, hi)
                               ELSE SqrtSearch(n, lo, mid - 1)

\* the largest r with r * r <= n, for 0 <= n < 2^28
ISqrt(n) == SqrtSearch(n, 0, Base)

\* one digit of a square root: root holds the digits found and wide what is
\* left of the places used, followed by the next two digits; the largest q
\* with (twice * Base + q) * q <= wide, twice being 2 * root
RECURSIVE RootDigit(_, _, _, _)
RootDigit(root, wide, twice, q) ==
    With(Digits([i \in 1..(Len(root) + 2) |->
                    Digit(wide, i) - q * Digit(<<q>> \o twice, i)]), LAMBDA left :
        IF left[Len(root) + 3] < 0 THEN RootDigit(root, wide, twice, q - 1)
        ELSE [root |-> <<q>> \o root, rem |-> SubSeq(left, 1, Len(root) + 1)])

RootStep(s, low, high) ==
    With(SubSeq(Digits([i \in 1..Len(s.root) |-> 2 * s.root[i]]), 1, Len(s.root)),
         LAMBDA twice :
        RootDigit(s.root, <<low, high>> \o s.rem, twice,
                  MathMin(Base - 1,
                          (Digit(s.rem, Len(s.root)) * Base
                               + (IF Len(s.root) = 1 THEN high
                                  ELSE s.rem[Len(s.root) - 1]))
                              \div twice[Len(s.root)])))

\* the square root of an eight-digit number of 109 or 110 places: its 55
\* places and one more place that is set when the root is not exact
Root(n) ==
    With(ISqrt(n[8] * Base + n[7]), LAMBDA r1 :
    With(RootStep([root |-> <<r1>>, rem |-> <<n[8] * Base + n[7] - r1 * r1>>],
                  n[5], n[6]), LAMBDA s2 :
    With(RootStep(s2, n[3], n[4]), LAMBDA s3 :
    With(RootStep(s3, n[1], n[2]), LAMBDA s4 :
        Digits(<<2 * s4.root[1] + (IF s4.rem = <<0, 0, 0, 0>> THEN 0 ELSE 1),
                 2 * s4.root[2], 2 * s4.root[3], 2 * s4.root[4]>>)))))

\* Math.sqrt(x)
DoubleSqrt(x) ==
    IF IsNaN(x) THEN NaN
    ELSE IF IsZero(x) THEN x
    ELSE IF x.neg THEN NaN
    ELSE IF IsInfinite(x) THEN x
    ELSE With(Normal(x), LAMBDA a :
             Round(FALSE,
                   Root(<<0, 0, 0, 0>> \o ShiftLeft(a.man, a.exp % 2, 4)),
                   (a.exp - (a.exp % 2)) \div 2 - 29))

\* x < y
DoubleLess(x, y) ==
    IF IsNaN(x) \/ IsNaN(y) THEN FALSE
    ELSE IF IsZero(x) /\ IsZero(y) THEN FALSE
    ELSE IF x.neg # y.neg THEN x.neg
    ELSE IF x.neg THEN MagLess(y, x)
    ELSE MagLess(x, y)

\* x <= y
DoubleLeq(x, y) ==
    IF IsNaN(x) \/ IsNaN(y) THEN FALSE ELSE ~DoubleLess(y, x)

\* x === y
NumEq(x, y) ==
    IF IsNaN(x) \/ IsNaN(y) THEN FALSE
    ELSE (IsZero(x) /\ IsZero(y)) \/ x = y

\* Object.is(x, y), the comparison of expect(x).toBe(y): -0 is not +0
DoubleEq(x, y) == x = y

\* Math.max: of two zeros -0 only when both are -0
DoubleMax(a, b) ==
    IF IsNaN(a) \/ IsNaN(b) THEN NaN
    ELSE IF DoubleLess(a, b) THEN b
    ELSE IF IsZero(a) /\ IsZero(b) THEN Double(a.neg /\ b.neg, MinExp, <<0, 0, 0, 0>>)
    ELSE a

\* Math.min: of two zeros -0 when one of them is -0
DoubleMin(a, b) ==
    IF IsNaN(a) \/ IsNaN(b) THEN NaN
    ELSE IF DoubleLess(b, a) THEN b
    ELSE IF IsZero(a) /\ IsZero(b) THEN Double(a.neg \/ b.neg, MinExp, <<0, 0, 0, 0>>)
    ELSE a

\* Math.floor(x)
DoubleFloor(x) ==
    IF ~IsFinite(x) \/ x.exp >= 0 THEN x
    ELSE With(ShiftRight(x.man, -x.exp, 4), LAMBDA whole :
             IF x.neg /\ LowPlaces(x.man, -x.exp)
             THEN Round(TRUE, Digits(<<whole[1] + 1, whole[2], whole[3], whole[4]>>), 0)
             ELSE Round(x.neg, whole, 0))

\* x is a whole number
IsInteger(x) == IsFinite(x) /\ (x.exp >= 0 \/ ~LowPlaces(x.man, -x.exp))

\* the literals of the program that are not whole numbers
Half == DoubleDiv(FromInt(1), FromInt(2))

\* 0.1
Tenth == DoubleDiv(FromInt(1), FromInt(10))

\* 1000, the milliseconds of a second
Thousand == FromInt(1000)

(***************************************************************************)
(* Vector2                                                                 *)
(***************************************************************************)
Vector2(x, y) == [x |-> x, y |-> y]

add(this, other) ==
    Vector2(DoublePlus(this.x, other.x), DoublePlus(this.y, other.y))

subtract(this, other) ==
    Vector2(DoubleMinus(this.x, other.x), DoubleMinus(this.y, other.y))

\* multiply that scales x only
multiplyXOnly(this, scalar) == Vector2(DoubleTimes(this.x, scalar), this.y)

multiply(this, scalar) ==
    Vector2(DoubleTimes(this.x, scalar), DoubleTimes(this.y, scalar))

length(this) ==
    DoubleSqrt(DoublePlus(DoubleTimes(this.x, this.x), DoubleTimes(this.y, this.y)))

normalize(this) ==
    With(length(this), LAMBDA len :
        IF NumEq(len, Zero) THEN Vector2(Zero, Zero)
        ELSE Vector2(DoubleDiv(this.x, len), DoubleDiv(this.y, len)))

clone(this) == Vector2(this.x, this.y)

distanceMixed(v1, v2) ==
    With(DoubleMinus(v2.x, v1.x), LAMBDA dx :
    With(DoubleMinus(v2.y, v1.x), LAMBDA dy :
        DoubleSqrt(DoublePlus(DoubleTimes(dx, dx), DoubleTimes(dy, dy)))))

distance(v1, v2) ==
    With(DoubleMinus(v2.x, v1.x), LAMBDA dx :
    With(DoubleMinus(v2.y, v1.y), LAMBDA dy :
        DoubleSqrt(DoublePlus(DoubleTimes(dx, dx), DoubleTimes(dy, dy)))))

zero == Vector2(Zero, Zero)

\* new Vector2(x, y) for whole numbers x and y
Point(x, y) == Vector2(FromInt(x), FromInt(y))

\* no helper is under check, no run is simulated
NoArgs == [op |-> "none"]

NoSim == [state |-> "none"]

(***************************************************************************)
(* Strings.  A JavaScript string is a sequence of UTF-16 code units, here  *)
(* a sequence of numbers.  String.prototype.toLowerCase follows the case   *)
(* mappings of the Unicode Character Database (here those of Unicode 17)   *)
(* on the code points of the string, whatever the locale.                  *)
(***************************************************************************)
\* <<first, last, step, delta>>: the code points first, first + step, ...,
\* last have a lower-case form, delta further on
LowerRanges ==
    <<
      <<65, 90, 1, 32>>, <<192, 214, 1, 32>>, <<216, 222, 1, 32>>,
      <<256, 302, 2, 1>>, <<306, 310, 2, 1>>, <<313, 327, 2, 1>>,
      <<330, 374, 2, 1>>, <<376, 376, 1, -121>>, <<377, 381, 2, 1>>,
      <<385, 385, 1, 210>>, <<386, 388, 2, 1>>, <<390, 390, 1, 206>>,
      <<391, 391, 1, 1>>, <<393, 394, 1, 205>>, <<395, 395, 1, 1>>,
      <<398, 398, 1, 79>>, <<399, 399, 1, 202>>, <<400, 400, 1, 203>>,
      <<401, 401, 1, 1>>, <<403, 403, 1, 205>>, <<404, 404, 1, 207>>,
      <<406, 406, 1, 211>>, <<407, 407, 1, 209>>, <<408, 408, 1, 1>>,
      <<412, 412, 1, 211>>, <<413, 413, 1, 213>>, <<415, 415, 1, 214>>,
      <<416, 420, 2, 1>>, <<422, 422, 1, 218>>, <<423, 423, 1, 1>>,
      <<425, 425, 1, 218>>, <<428, 428, 1, 1>>, <<430, 430, 1, 218>>,
      <<431, 431, 1, 1>>, <<433, 434, 1, 217>>, <<435, 437, 2, 1>>,
      <<439, 439, 1, 219>>, <<440, 440, 1, 1>>, <<444, 444, 1, 1>>,
      <<452, 452, 1, 2>>, <<453, 453, 1, 1>>, <<455, 455, 1, 2>>,
      <<456, 456, 1, 1>>, <<458, 458, 1, 2>>, <<459, 475, 2, 1>>,
      <<478, 494, 2, 1>>, <<497, 497, 1, 2>>, <<498, 500, 2, 1>>,
      <<502, 502, 1, -97>>, <<503, 503, 1, -56>>, <<504, 542, 2, 1>>,
      <<544, 544, 1, -130>>, <<546, 562, 2, 1>>, <<570, 570, 1, 10795>>,
      <<571, 571, 1, 1>>, <<573, 573, 1, -163>>, <<574, 574, 1, 10792>>,
      <<577, 577, 1, 1>>, <<579, 579, 1, -195>>, <<580, 580, 1, 69>>,
      <<581, 581, 1, 71>>, <<582, 590, 2, 1>>, <<880, 882, 2, 1>>,
      <<886, 886, 1, 1>>, <<895, 895, 1, 116>>, <<902, 902, 1, 38>>,
      <<904, 906, 1, 37>>, <<908, 908, 1, 64>>, <<910, 911, 1, 63>>,
      <<913, 929, 1, 32>>, <<931, 939, 1, 32>>, <<975, 975, 1, 8>>,
      <<984, 1006, 2, 1>>, <<1012, 1012, 1, -60>>, <<1015, 1015, 1, 1>>,
      <<1017, 1017, 1, -7>>, <<1018, 1018, 1, 1>>, <<1021, 1023, 1, -130>>,
      <<1024, 1039, 1, 80>>, <<1040, 1071, 1, 32>>, <<1120, 1152, 2, 1>>,
      <<1162, 1214, 2, 1>>, <<1216, 1216, 1, 15>>, <<1217, 1229, 2, 1>>,
      <<1232, 1326, 2, 1>>, <<1329, 1366, 1, 48>>, <<4256, 4293, 1, 7264>>,
      <<4295, 4295, 1, 7264>>, <<4301, 4301, 1, 7264>>,
      <<5024, 5103, 1, 38864>>, <<5104, 5109, 1, 8>>, <<7305, 7305, 1, 1>>,
      <<7312, 7354, 1, -3008>>, <<7357, 7359, 1, -3008>>,
      <<7680, 7828, 2, 1>>, <<7838, 7838, 1, -7615>>, <<7840, 7934, 2, 1>>,
      <<7944, 7951, 1, -8>>, <<7960, 7965, 1, -8>>, <<7976, 7983, 1, -8>>,
      <<7992, 7999, 1, -8>>, <<8008, 8013, 1, -8>>, <<8025, 8031, 2, -8>>,
      <<8040, 8047, 1, -8>>, <<8072, 8079, 1, -8>>, <<8088, 8095, 1, -8>>,
      <<8104, 8111, 1, -8>>, <<8120, 8121, 1, -8>>, <<8122, 8123, 1, -74>>,
      <<8124, 8124, 1, -9>>, <<8136, 8139, 1, -86>>, <<8140, 8140, 1, -9>>,
      <<8152, 8153, 1, -8>>, <<8154, 8155, 1, -100>>, <<8168, 8169, 1, -8>>,
      <<8170, 8171, 1, -112>>, <<8172, 8172, 1, -7>>,
      <<8184, 8185, 1, -128>>, <<8186, 8187, 1, -126>>,
      <<8188, 8188, 1, -9>>, <<8486, 8486, 1, -7517>>,
      <<8490, 8490, 1, -8383>>, <<8491, 8491, 1, -8262>>,
      <<8498, 8498, 1, 28>>, <<8544, 8559, 1, 16>>, <<8579, 8579, 1, 1>>,
      <<9398, 9423, 1, 26>>, <<11264, 11311, 1, 48>>, <<11360, 11360, 1, 1>>,
      <<11362, 11362, 1, -10743>>, <<11363, 11363, 1, -3814>>,
      <<11364, 11364, 1, -10727>>, <<11367, 11371, 2, 1>>,
      <<11373, 11373, 1, -10780>>, <<11374, 11374, 1, -10749>>,
      <<11375, 11375, 1, -10783>>, <<11376, 11376, 1, -10782>>,
      <<11378, 11378, 1, 1>>, <<11381, 11381, 1, 1>>,
      <<11390, 11391, 1, -10815>>, <<11392, 11490, 2, 1>>,
      <<11499, 11501, 2, 1>>, <<11506, 11506, 1, 1>>, <<42560, 42604, 2, 1>>,
      <<42624, 42650, 2, 1>>, <<42786, 42798, 2, 1>>, <<42802, 42862, 2, 1>>,
      <<42873, 42875, 2, 1>>, <<42877, 42877, 1, -35332>>,
      <<42878, 42886, 2, 1>>, <<42891, 42891, 1, 1>>,
      <<42893, 42893, 1, -42280>>, <<42896, 42898, 2, 1>>,
      <<42902, 42920, 2, 1>>, <<42922, 42922, 1, -42308>>,
      <<42923, 42923, 1, -42319>>, <<42924, 42924, 1, -42315>>,
      <<42925, 42925, 1, -42305>>, <<42926, 42926, 1, -42308>>,
      <<42928, 42928, 1, -42258>>, <<42929, 42929, 1, -42282>>,
      <<42930, 42930, 1, -42261>>, <<42931, 42931, 1, 928>>,
      <<42932, 42946, 2, 1>>, <<42948, 42948, 1, -48>>,
      <<42949, 42949, 1, -42307>>, <<42950, 42950, 1, -35384>>,
      <<42951, 42953, 2, 1>>, <<42955, 42955, 1, -42343>>,
      <<42956, 42970, 2, 1>>, <<42972, 42972, 1, -42561>>,
      <<42997, 42997, 1, 1>>, <<65313, 65338, 1, 32>>,
      <<66560, 66599, 1, 40>>, <<66736, 66771, 1, 40>>,
      <<66928, 66938, 1, 39>>, <<66940, 66954, 1, 39>>,
      <<66956, 66962, 1, 39>>, <<66964, 66965, 1, 39>>,
      <<68736, 68786, 1, 64>>, <<68944, 68965, 1, 32>>,
      <<71840, 71871, 1, 32>>, <<93760, 93791, 1, 32>>,
      <<93856, 93880, 1, 27>>, <<125184, 125217, 1, 34>>
    >>

\* <<first, last>>: the code points from first to last are cased letters
\* (Lowercase, Uppercase or titlecase) that a case mapping does not look
\* through
CasedRanges ==
    <<
      <<65, 90>>, <<97, 122>>, <<170, 170>>, <<181, 181>>, <<186, 186>>,
      <<192, 214>>, <<216, 246>>, <<248, 442>>, <<444, 447>>, <<452, 659>>,
      <<662, 687>>, <<880, 883>>, <<886, 887>>, <<891, 893>>, <<895, 895>>,
      <<902, 902>>, <<904, 906>>, <<908, 908>>, <<910, 929>>, <<931, 1013>>,
      <<1015, 1153>>, <<1162, 1327>>, <<1329, 1366>>, <<1376, 1416>>,
      <<4256, 4293>>, <<4295, 4295>>, <<4301, 4301>>, <<4304, 4346>>,
      <<4349, 4351>>, <<5024, 5109>>, <<5112, 5117>>, <<7296, 7306>>,
      <<7312, 7354>>, <<7357, 7359>>, <<7424, 7467>>, <<7531, 7543>>,
      <<7545, 7578>>, <<7680, 7957>>, <<7960, 7965>>, <<7968, 8005>>,
      <<8008, 8013>>, <<8016, 8023>>, <<8025, 8025>>, <<8027, 8027>>,
      <<8029, 8029>>, <<8031, 8061>>, <<8064, 8116>>, <<8118, 8124>>,
      <<8126, 8126>>, <<8130, 8132>>, <<8134, 8140>>, <<8144, 8147>>,
      <<8150, 8155>>, <<8160, 8172>>, <<8178, 8180>>, <<8182, 8188>>,
      <<8450, 8450>>, <<8455, 8455>>, <<8458, 8467>>, <<8469, 8469>>,
      <<8473, 8477>>, <<8484, 8484>>, <<8486, 8486>>, <<8488, 8488>>,
      <<8490, 8493>>, <<8495, 8500>>, <<8505, 8505>>, <<8508, 8511>>,
      <<8517, 8521>>, <<8526, 8526>>, <<8544, 8575>>, <<8579, 8580>>,
      <<9398, 9449>>, <<11264, 11387>>, <<11390, 11492>>, <<11499, 11502>>,
      <<11506, 11507>>, <<11520, 11557>>, <<11559, 11559>>, <<11565, 11565>>,
      <<42560, 42605>>, <<42624, 42651>>, <<42786, 42863>>, <<42865, 42887>>,
      <<42891, 42894>>, <<42896, 42972>>, <<42997, 42998>>, <<43002, 43002>>,
      <<43824, 43866>>, <<43872, 43880>>, <<43888, 43967>>, <<64256, 64262>>,
      <<64275, 64279>>, <<65313, 65338>>, <<65345, 65370>>, <<66560, 66639>>,
      <<66736, 66771>>, <<66776, 66811>>, <<66928, 66938>>, <<66940, 66954>>,
      <<66956, 66962>>, <<66964, 66965>>, <<66967, 66977>>, <<66979, 66993>>,
      <<66995, 67001>>, <<67003, 67004>>, <<68736, 68786>>, <<68800, 68850>>,
      <<68944, 68965>>, <<68976, 68997>>, <<71840, 71903>>, <<93760, 93823>>,
      <<93856, 93880>>, <<93883, 93907>>, <<119808, 119892>>,
      <<119894, 119964>>, <<119966, 119967>>, <<119970, 119970>>,
      <<119973, 119974>>, <<119977, 119980>>, <<119982, 119993>>,
      <<119995, 119995>>, <<119997, 120003>>, <<120005, 120069>>,
      <<120071, 120074>>, <<120077, 120084>>, <<120086, 120092>>,
      <<120094, 120121>>, <<120123, 120126>>, <<120128, 120132>>,
      <<120134, 120134>>, <<120138, 120144>>, <<120146, 120485>>,
      <<120488, 120512>>, <<120514, 120538>>, <<120540, 120570>>,
      <<120572, 120596>>, <<120598, 120628>>, <<120630, 120654>>,
      <<120656, 120686>>, <<120688, 120712>>, <<120714, 120744>>,
      <<120746, 120770>>, <<120772, 120779>>, <<122624, 122633>>,
      <<122635, 122654>>, <<122661, 122666>>, <<125184, 125251>>,
      <<127280, 127305>>, <<127312, 127337>>, <<127344, 127369>>
    >>

\* <<first, last>>: the code points from first to last are looked through
\* by a case mapping (Case_Ignorable)
IgnorableRanges ==
    <<
      <<39, 39>>, <<46, 46>>, <<58, 58>>, <<94, 94>>, <<96, 96>>,
      <<168, 168>>, <<173, 173>>, <<175, 175>>, <<180, 180>>, <<183, 184>>,
      <<688, 879>>, <<884, 885>>, <<890, 890>>, <<900, 901>>, <<903, 903>>,
      <<1155, 1161>>, <<1369, 1369>>, <<1375, 1375>>, <<1425, 1469>>,
      <<1471, 1471>>, <<1473, 1474>>, <<1476, 1477>>, <<1479, 1479>>,
      <<1524, 1524>>, <<1536, 1541>>, <<1552, 1562>>, <<1564, 1564>>,
      <<1600, 1600>>, <<1611, 1631>>, <<1648, 1648>>, <<1750, 1757>>,
      <<1759, 1768>>, <<1770, 1773>>, <<1807, 1807>>, <<1809, 1809>>,
      <<1840, 1866>>, <<1958, 1968>>, <<2027, 2037>>, <<2042, 2042>>,
      <<2045, 2045>>, <<2070, 2093>>, <<2137, 2139>>, <<2184, 2184>>,
      <<2192, 2193>>, <<2199, 2207>>, <<2249, 2306>>, <<2362, 2362>>,
      <<2364, 2364>>, <<2369, 2376>>, <<2381, 2381>>, <<2385, 2391>>,
      <<2402, 2403>>, <<2417, 2417>>, <<2433, 2433>>, <<2492, 2492>>,
      <<2497, 2500>>, <<2509, 2509>>, <<2530, 2531>>, <<2558, 2558>>,
      <<2561, 2562>>, <<2620, 2620>>, <<2625, 2626>>, <<2631, 2632>>,
      <<2635, 2637>>, <<2641, 2641>>, <<2672, 2673>>, <<2677, 2677>>,
      <<2689, 2690>>, <<2748, 2748>>, <<2753, 2757>>, <<2759, 2760>>,
      <<2765, 2765>>, <<2786, 2787>>, <<2810, 2815>>, <<2817, 2817>>,
      <<2876, 2876>>, <<2879, 2879>>, <<2881, 2884>>, <<2893, 2893>>,
      <<2901, 2902>>, <<2914, 2915>>, <<2946, 2946>>, <<3008, 3008>>,
      <<3021, 3021>>, <<3072, 3072>>, <<3076, 3076>>, <<3132, 3132>>,
      <<3134, 3136>>, <<3142, 3144>>, <<3146, 3149>>, <<3157, 3158>>,
      <<3170, 3171>>, <<3201, 3201>>, <<3260, 3260>>, <<3263, 3263>>,
      <<3270, 3270>>, <<3276, 3277>>, <<3298, 3299>>, <<3328, 3329>>,
      <<3387, 3388>>, <<3393, 3396>>, <<3405, 3405>>, <<3426, 3427>>,
      <<3457, 3457>>, <<3530, 3530>>, <<3538, 3540>>, <<3542, 3542>>,
      <<3633, 3633>>, <<3636, 3642>>, <<3654, 3662>>, <<3761, 3761>>,
      <<3764, 3772>>, <<3782, 3782>>, <<3784, 3790>>, <<3864, 3865>>,
      <<3893, 3893>>, <<3895, 3895>>, <<3897, 3897>>, <<3953, 3966>>,
      <<3968, 3972>>, <<3974, 3975>>, <<3981, 3991>>, <<3993, 4028>>,
      <<4038, 4038>>, <<4141, 4144>>, <<4146, 4151>>, <<4153, 4154>>,
      <<4157, 4158>>, <<4184, 4185>>, <<4190, 4192>>, <<4209, 4212>>,
      <<4226, 4226>>, <<4229, 4230>>, <<4237, 4237>>, <<4253, 4253>>,
      <<4348, 4348>>, <<4957, 4959>>, <<5906, 5908>>, <<5938, 5939>>,
      <<5970, 5971>>, <<6002, 6003>>, <<6068, 6069>>, <<6071, 6077>>,
      <<6086, 6086>>, <<6089, 6099>>, <<6103, 6103>>, <<6109, 6109>>,
      <<6155, 6159>>, <<6211, 6211>>, <<6277, 6278>>, <<6313, 6313>>,
      <<6432, 6434>>, <<6439, 6440>>, <<6450, 6450>>, <<6457, 6459>>,
      <<6679, 6680>>, <<6683, 6683>>, <<6742, 6742>>, <<6744, 6750>>,
      <<6752, 6752>>, <<6754, 6754>>, <<6757, 6764>>, <<6771, 6780>>,
      <<6783, 6783>>, <<6823, 6823>>, <<6832, 6877>>, <<6880, 6891>>,
      <<6912, 6915>>, <<6964, 6964>>, <<6966, 6970>>, <<6972, 6972>>,
      <<6978, 6978>>, <<7019, 7027>>, <<7040, 7041>>, <<7074, 7077>>,
      <<7080, 7081>>, <<7083, 7085>>, <<7142, 7142>>, <<7144, 7145>>,
      <<7149, 7149>>, <<7151, 7153>>, <<7212, 7219>>, <<7222, 7223>>,
      <<7288, 7293>>, <<7376, 7378>>, <<7380, 7392>>, <<7394, 7400>>,
      <<7405, 7405>>, <<7412, 7412>>, <<7416, 7417>>, <<7468, 7530>>,
      <<7544, 7544>>, <<7579, 7679>>, <<8125, 8125>>, <<8127, 8129>>,
      <<8141, 8143>>, <<8157, 8159>>, <<8173, 8175>>, <<8189, 8190>>,
      <<8203, 8207>>, <<8216, 8217>>, <<8228, 8228>>, <<8231, 8231>>,
      <<8234, 8238>>, <<8288, 8292>>, <<8294, 8303>>, <<8305, 8305>>,
      <<8319, 8319>>, <<8336, 8348>>, <<8400, 8432>>, <<11388, 11389>>,
      <<11503, 11505>>, <<11631, 11631>>, <<11647, 11647>>, <<11744, 11775>>,
      <<11823, 11823>>, <<12293, 12293>>, <<12330, 12333>>, <<12337, 12341>>,
      <<12347, 12347>>, <<12441, 12446>>, <<12540, 12542>>, <<40981, 40981>>,
      <<42232, 42237>>, <<42508, 42508>>, <<42607, 42610>>, <<42612, 42621>>,
      <<42623, 42623>>, <<42652, 42655>>, <<42736, 42737>>, <<42752, 42785>>,
      <<42864, 42864>>, <<42888, 42890>>, <<42993, 42996>>, <<43000, 43001>>,
      <<43010, 43010>>, <<43014, 43014>>, <<43019, 43019>>, <<43045, 43046>>,
      <<43052, 43052>>, <<43204, 43205>>, <<43232, 43249>>, <<43263, 43263>>,
      <<43302, 43309>>, <<43335, 43345>>, <<43392, 43394>>, <<43443, 43443>>,
      <<43446, 43449>>, <<43452, 43453>>, <<43471, 43471>>, <<43493, 43494>>,
      <<43561, 43566>>, <<43569, 43570>>, <<43573, 43574>>, <<43587, 43587>>,
      <<43596, 43596>>, <<43632, 43632>>, <<43644, 43644>>, <<43696, 43696>>,
      <<43698, 43700>>, <<43703, 43704>>, <<43710, 43711>>, <<43713, 43713>>,
      <<43741, 43741>>, <<43756, 43757>>, <<43763, 43764>>, <<43766, 43766>>,
      <<43867, 43871>>, <<43881, 43883>>, <<44005, 44005>>, <<44008, 44008>>,
      <<44013, 44013>>, <<64286, 64286>>, <<64434, 64450>>, <<65024, 65039>>,
      <<65043, 65043>>, <<65056, 65071>>, <<65106, 65106>>, <<65109, 65109>>,
      <<65279, 65279>>, <<65287, 65287>>, <<65294, 65294>>, <<65306, 65306>>,
      <<65342, 65342>>, <<65344, 65344>>, <<65392, 65392>>, <<65438, 65439>>,
      <<65507, 65507>>, <<65529, 65531>>, <<66045, 66045>>, <<66272, 66272>>,
      <<66422, 66426>>, <<67456, 67461>>, <<67463, 67504>>, <<67506, 67514>>,
      <<68097, 68099>>, <<68101, 68102>>, <<68108, 68111>>, <<68152, 68154>>,
      <<68159, 68159>>, <<68325, 68326>>, <<68900, 68903>>, <<68942, 68942>>,
      <<68969, 68973>>, <<68975, 68975>>, <<69291, 69292>>, <<69317, 69317>>,
      <<69370, 69375>>, <<69446, 69456>>, <<69506, 69509>>, <<69633, 69633>>,
      <<69688, 69702>>, <<69744, 69744>>, <<69747, 69748>>, <<69759, 69761>>,
      <<69811, 69814>>, <<69817, 69818>>, <<69821, 69821>>, <<69826, 69826>>,
      <<69837, 69837>>, <<69888, 69890>>, <<69927, 69931>>, <<69933, 69940>>,
      <<70003, 70003>>, <<70016, 70017>>, <<70070, 70078>>, <<70089, 70092>>,
      <<70095, 70095>>, <<70191, 70193>>, <<70196, 70196>>, <<70198, 70199>>,
      <<70206, 70206>>, <<70209, 70209>>, <<70367, 70367>>, <<70371, 70378>>,
      <<70400, 70401>>, <<70459, 70460>>, <<70464, 70464>>, <<70502, 70508>>,
      <<70512, 70516>>, <<70587, 70592>>, <<70606, 70606>>, <<70608, 70608>>,
      <<70610, 70610>>, <<70625, 70626>>, <<70712, 70719>>, <<70722, 70724>>,
      <<70726, 70726>>, <<70750, 70750>>, <<70835, 70840>>, <<70842, 70842>>,
      <<70847, 70848>>, <<70850, 70851>>, <<71090, 71093>>, <<71100, 71101>>,
      <<71103, 71104>>, <<71132, 71133>>, <<71219, 71226>>, <<71229, 71229>>,
      <<71231, 71232>>, <<71339, 71339>>, <<71341, 71341>>, <<71344, 71349>>,
      <<71351, 71351>>, <<71453, 71453>>, <<71455, 71455>>, <<71458, 71461>>,
      <<71463, 71467>>, <<71727, 71735>>, <<71737, 71738>>, <<71995, 71996>>,
      <<71998, 71998>>, <<72003, 72003>>, <<72148, 72151>>, <<72154, 72155>>,
      <<72160, 72160>>, <<72193, 72202>>, <<72243, 72248>>, <<72251, 72254>>,
      <<72263, 72263>>, <<72273, 72278>>, <<72281, 72283>>, <<72330, 72342>>,
      <<72344, 72345>>, <<72544, 72544>>, <<72546, 72548>>, <<72550, 72550>>,
      <<72752, 72758>>, <<72760, 72765>>, <<72767, 72767>>, <<72850, 72871>>,
      <<72874, 72880>>, <<72882, 72883>>, <<72885, 72886>>, <<73009, 73014>>,
      <<73018, 73018>>, <<73020, 73021>>, <<73023, 73029>>, <<73031, 73031>>,
      <<73104, 73105>>, <<73109, 73109>>, <<73111, 73111>>, <<73177, 73177>>,
      <<73459, 73460>>, <<73472, 73473>>, <<73526, 73530>>, <<73536, 73536>>,
      <<73538, 73538>>, <<73562, 73562>>, <<78896, 78912>>, <<78919, 78933>>,
      <<90398, 90409>>, <<90413, 90415>>, <<92912, 92916>>, <<92976, 92982>>,
      <<92992, 92995>>, <<93504, 93506>>, <<93547, 93548>>, <<94031, 94031>>,
      <<94095, 94111>>, <<94176, 94177>>, <<94179, 94180>>, <<94194, 94195>>,
      <<110576, 110579>>, <<110581, 110587>>, <<110589, 110590>>,
      <<113821, 113822>>, <<113824, 113827>>, <<118528, 118573>>,
      <<118576, 118598>>, <<119143, 119145>>, <<119155, 119170>>,
      <<119173, 119179>>, <<119210, 119213>>, <<119362, 119364>>,
      <<121344, 121398>>, <<121403, 121452>>, <<121461, 121461>>,
      <<121476, 121476>>, <<121499, 121503>>, <<121505, 121519>>,
      <<122880, 122886>>, <<122888, 122904>>, <<122907, 122913>>,
      <<122915, 122916>>, <<122918, 122922>>, <<122928, 122989>>,
      <<123023, 123023>>, <<123184, 123197>>, <<123566, 123566>>,
      <<123628, 123631>>, <<124139, 124143>>, <<124398, 124399>>,
      <<124643, 124643>>, <<124646, 124646>>, <<124654, 124655>>,
      <<124661, 124661>>, <<124671, 124671>>, <<125136, 125142>>,
      <<125252, 125259>>, <<127995, 127999>>, <<917505, 917505>>,
      <<917536, 917631>>, <<917760, 917999>>
    >>

\* the ranges of a table are apart and in rising order: the last of 1..hi
\* that starts at or before c, lo when there is none above it
RECURSIVE Search(_, _, _, _)
Search(ranges, c, lo, hi) ==
    IF lo >= hi THEN lo
    ELSE IF ranges[(lo + hi + 1) \div 2][1] <= c
    THEN Search(ranges, c, (lo + hi + 1) \div 2, hi)
    ELSE Search(ranges, c, lo, (lo + hi + 1) \div 2 - 1)

RangeOf(c, ranges) == Search(ranges, c, 0, Len(ranges))

InRanges(c, ranges) ==
    With(RangeOf(c, ranges), LAMBDA i : i > 0 /\ c <= ranges[i][2])

Cased(c) == InRanges(c, CasedRanges)

CaseIgnorable(c) == InRanges(c, IgnorableRanges)

\* a code point from two code units: a high surrogate (U+D800 to U+DBFF)
\* followed by a low one (U+DC00 to U+DFFF)
IsPair(high, low) ==
    /\ 55296 <= high /\ high <= 56319
    /\ 56320 <= low /\ low <= 57343

\* the code points of the units of k from the i-th on, a surrogate without
\* its partner standing for itself
RECURSIVE CodePointsFrom(_, _)
CodePointsFrom(k, i) ==
    IF i > Len(k) THEN <<>>
    ELSE IF i < Len(k) /\ IsPair(k[i], k[i + 1])
    THEN <<65536 + (k[i] - 55296) * 1024 + (k[i + 1] - 56320)>>
             \o CodePointsFrom(k, i + 2)
    ELSE <<k[i]>> \o CodePointsFrom(k, i + 1)

CodePoints(k) == CodePointsFrom(k, 1)

\* the code units of a code point
CodeUnits(c) ==
    IF c < 65536 THEN <<c>>
    ELSE <<55296 + (c - 65536) \div 1024, 56320 + ((c - 65536) % 1024)>>

\* the lower-case form of one code point, whatever is around it: U+0130
\* becomes U+0069 U+0307, every other code point one code point
\* the lower-case form of a code point, in code units; in Basic Latin only A
\* to Z have one
LowerChar(c) ==
    IF c < 128 THEN (IF 65 <= c /\ c <= 90 THEN <<c + 32>> ELSE <<c>>)
    ELSE IF c = 304 THEN <<105, 775>>
    ELSE With(RangeOf(c, LowerRanges), LAMBDA i :
             IF /\ i > 0
                /\ c <= LowerRanges[i][2]
                /\ (c - LowerRanges[i][1]) % LowerRanges[i][3] = 0
             THEN CodeUnits(c + LowerRanges[i][4])
             ELSE CodeUnits(c))

\* chars[i] ends a word: looking through the ignorable code points, a cased
\* letter comes before it and none after it
FinalSigma(chars, i) ==
    LET before == {j \in 1..(i - 1) : ~CaseIgnorable(chars[j])}
        after  == {j \in (i + 1)..Len(chars) : ~CaseIgnorable(chars[j])}
    IN  /\ before # {}
        /\ Cased(chars[CHOOSE j \in before : \A h \in before : h <= j])
        /\ \/ after = {}
           \/ ~Cased(chars[CHOOSE j \in after : \A h \in after : j <= h])

\* U+03A3, capital sigma, becomes U+03C2 at the end of a word and U+03C3
\* elsewhere
RECURSIVE LowerFrom(_, _)
LowerFrom(chars, i) ==
    IF i > Len(chars) THEN <<>>
    ELSE (IF chars[i] = 931 /\ FinalSigma(chars, i) THEN <<962>>
          ELSE LowerChar(chars[i]))
         \o LowerFrom(chars, i + 1)

\* String.prototype.toLowerCase
toLowerCase(k) ==
    With(k, LAMBDA units :
    With(CodePoints(units), LAMBDA chars : LowerFrom(chars, 1)))

(***************************************************************************)
(* Input.  The key names are written as their code units.                  *)
(***************************************************************************)
\* "w"
Key_w == <<119>>

\* "a"
Key_a == <<97>>

\* "s"
Key_s == <<115>>

\* "d"
Key_d == <<100>>

\* "arrowup"
Key_arrowup == <<97, 114, 114, 111, 119, 117, 112>>

\* "arrowdown"
Key_arrowdown == <<97, 114, 114, 111, 119, 100, 111, 119, 110>>

\* "arrowleft"
Key_arrowleft == <<97, 114, 114, 111, 119, 108, 101, 102, 116>>

\* "arrowright"
Key_arrowright == <<97, 114, 114, 111, 119, 114, 105, 103, 104, 116>>

\* "W"
Key_W == <<87>>

\* "D"
Key_D == <<68>>

\* "ArrowUp"
Key_ArrowUp == <<65, 114, 114, 111, 119, 85, 112>>

\* "ArrowDown"
Key_ArrowDown == <<65, 114, 114, 111, 119, 68, 111, 119, 110>>

\* "ArrowLeft"
Key_ArrowLeft == <<65, 114, 114, 111, 119, 76, 101, 102, 116>>

\* "ArrowRight"
Key_ArrowRight == <<65, 114, 114, 111, 119, 82, 105, 103, 104, 116>>

\* capital sigma, a key of the Greek keyboard
Key_Sigma == <<931>>

\* e.key values the keyboard events of the model carry
KeyNames ==
    {Key_w, Key_a, Key_s, Key_d, Key_W,
     Key_ArrowUp, Key_ArrowDown, Key_ArrowLeft, Key_ArrowRight, Key_Sigma}

isKeyPressed(held, key) == toLowerCase(key) \in held

\* getMovementDirection that returns the direction as the keys give it
getMovementDirectionRaw(held) ==
    With(IF isKeyPressed(held, Key_w) \/ isKeyPressed(held, Key_arrowup)
         THEN DoubleMinus(Zero, FromInt(1)) ELSE Zero, LAMBDA y1 :
    With(IF isKeyPressed(held, Key_s) \/ isKeyPressed(held, Key_arrowdown)
         THEN DoublePlus(y1, FromInt(1)) ELSE y1, LAMBDA y :
    With(IF isKeyPressed(held, Key_a) \/ isKeyPressed(held, Key_arrowleft)
         THEN DoubleMinus(Zero, FromInt(1)) ELSE Zero, LAMBDA x1 :
    With(IF isKeyPressed(held, Key_d) \/ isKeyPressed(held, Key_arrowright)
         THEN DoublePlus(x1, FromInt(1)) ELSE x1, LAMBDA x :
        Vector2(x, y)))))

getMovementDirection(held) ==
    With(IF isKeyPressed(held, Key_w) \/ isKeyPressed(held, Key_arrowup)
         THEN DoubleMinus(Zero, FromInt(1)) ELSE Zero, LAMBDA y1 :
    With(IF isKeyPressed(held, Key_s) \/ isKeyPressed(held, Key_arrowdown)
         THEN DoublePlus(y1, FromInt(1)) ELSE y1, LAMBDA y :
    With(IF isKeyPressed(held, Key_a) \/ isKeyPressed(held, Key_arrowleft)
         THEN DoubleMinus(Zero, FromInt(1)) ELSE Zero, LAMBDA x1 :
    With(IF isKeyPressed(held, Key_d) \/ isKeyPressed(held, Key_arrowright)
         THEN DoublePlus(x1, FromInt(1)) ELSE x1, LAMBDA x :
    With(Vector2(x, y), LAMBDA direction :
        IF DoubleLess(Zero, length(direction)) THEN normalize(direction)
        ELSE direction)))))

getMousePosition == clone(mousePosition)

isMousePressed == mousePressed

\* the listeners exist once the Game, and with it the Input, is constructed
Listening == pc = "ready"

KeyDown(k) ==
    /\ Listening
    /\ keys' = keys \cup {toLowerCase(k)}
    /\ lastEvent' = "keydown"
    /\ UNCHANGED <<gameVars, mousePosition, mousePressed, vecVars, simVars>>

KeyUp(k) ==
    /\ Listening
    /\ keys' = keys \ {toLowerCase(k)}
    /\ lastEvent' = "keyup"
    /\ UNCHANGED <<gameVars, mousePosition, mousePressed, vecVars, simVars>>

MouseMove(x, y) ==
    /\ Listening
    /\ mousePosition' = Point(x, y)
    /\ lastEvent' = "mousemove"
    /\ UNCHANGED <<gameVars, keys, mousePressed, vecVars, simVars>>

MouseDown ==
    /\ Listening
    /\ mousePressed' = TRUE
    /\ lastEvent' = "mousedown"
    /\ UNCHANGED <<gameVars, keys, mousePosition, vecVars, simVars>>

MouseUp ==
    /\ Listening
    /\ mousePressed' = FALSE
    /\ lastEvent' = "mouseup"
    /\ UNCHANGED <<gameVars, keys, mousePosition, vecVars, simVars>>

BlurKeepsKeys ==
    /\ Listening
    /\ keys' = keys
    /\ lastEvent' = "blur"
    /\ UNCHANGED <<gameVars, mousePosition, mousePressed, vecVars, simVars>>

Blur ==
    /\ Listening
    /\ keys' = {}
    /\ lastEvent' = "blur"
    /\ UNCHANGED <<gameVars, mousePosition, mousePressed, vecVars, simVars>>

\* Input.clear()
InputClear ==
    /\ Listening
    /\ keys' = {}
    /\ mousePressed' = FALSE
    /\ lastEvent' = "clear"
    /\ UNCHANGED <<gameVars, mousePosition, vecVars, simVars>>

(***************************************************************************)
(* Configuration                                                           *)
(***************************************************************************)
CANVAS_WIDTH == 1280

CANVAS_HEIGHT == 720

DEBUG_MODE == FALSE

\* Game.playerSpeed
PlayerSpeed == 200

\* radius of the player circle and margin of the screen clamp in Game.update
PlayerRadius == 20

(***************************************************************************)
(* Logger.  Logger.enabled starts true; setEnabled is the only writer and  *)
(* nothing in the program calls it.                                        *)
(***************************************************************************)
setEnabled(w, enabled) == [w EXCEPT !.enabled = enabled]

Info(w, message) ==
    IF ~w.enabled THEN w
    ELSE [w EXCEPT !.console = Append(@, "[INFO] " \o message)]

Warn(w, message) ==
    IF ~w.enabled THEN w
    ELSE [w EXCEPT !.console = Append(@, "[WARN] " \o message)]

Error(w, message) ==
    IF ~w.enabled THEN w
    ELSE [w EXCEPT !.console = Append(@, "[ERROR] " \o message)]

(***************************************************************************)
(* Game.  The operators work on a record w of what a handler changes: the  *)
(* Game fields, the call trace, the requested animation frames and the     *)
(* console.  The clock is read in whole milliseconds.                      *)
(***************************************************************************)
Call(op, arg) == [op |-> op, arg |-> arg]

Trace(w, op, arg) == [w EXCEPT !.calls = Append(@, Call(op, arg))]

World ==
    [game |-> game, calls |-> <<>>, raf |-> rafPending, console |-> console,
     enabled |-> loggerEnabled]

Commit(w) ==
    /\ game' = w.game
    /\ calls' = w.calls
    /\ rafPending' = w.raf
    /\ console' = w.console
    /\ loggerEnabled' = w.enabled

\* the fields before the constructor has run
NoGame ==
    [running |-> FALSE, lastTime |-> 0, fps |-> 0, frameCount |-> 0,
     fpsUpdateTime |-> Zero, playerPosition |-> zero, playerSpeed |-> Zero,
     width |-> Zero, height |-> Zero]

\* new Game(canvas), the canvas having a 2D context; width and height are
\* the Renderer's
NewGame(canvasWidth, canvasHeight) ==
    [running |-> FALSE, lastTime |-> 0, fps |-> 0, frameCount |-> 0,
     fpsUpdateTime |-> Zero,
     playerPosition |-> Vector2(DoubleDiv(canvasWidth, FromInt(2)),
                                DoubleDiv(canvasHeight, FromInt(2))),
     playerSpeed |-> FromInt(PlayerSpeed),
     width |-> canvasWidth, height |-> canvasHeight]

\* updateFPS that restarts the count only above one second
updateFPSAboveOne(w, deltaTime) ==
    With(DoublePlus(w.game.fpsUpdateTime, deltaTime), LAMBDA fpsUpdateTime :
        IF DoubleLess(FromInt(1), fpsUpdateTime)
        THEN [w EXCEPT !.game.fps = w.game.frameCount + 1,
                       !.game.frameCount = 0,
                       !.game.fpsUpdateTime = Zero]
        ELSE [w EXCEPT !.game.frameCount = @ + 1,
                       !.game.fpsUpdateTime = fpsUpdateTime])

updateFPS(w, deltaTime) ==
    With(DoublePlus(w.game.fpsUpdateTime, deltaTime), LAMBDA fpsUpdateTime :
        IF DoubleLeq(FromInt(1), fpsUpdateTime)
        THEN [w EXCEPT !.game.fps = w.game.frameCount + 1,
                       !.game.frameCount = 0,
                       !.game.fpsUpdateTime = Zero]
        ELSE [w EXCEPT !.game.frameCount = @ + 1,
                       !.game.fpsUpdateTime = fpsUpdateTime])

\* update that keeps the player from the right and bottom edges only
updateNoLowerClamp(w, deltaTime, held) ==
    With(getMovementDirection(held), LAMBDA direction :
    With(add(w.game.playerPosition,
             multiply(direction, DoubleTimes(w.game.playerSpeed, deltaTime))),
         LAMBDA moved :
    With(DoubleMin(DoubleMinus(w.game.width, FromInt(PlayerRadius)), moved.x),
         LAMBDA x :
    With(DoubleMin(DoubleMinus(w.game.height, FromInt(PlayerRadius)), moved.y),
         LAMBDA y :
        [Trace(Trace(Trace(Trace(w, "input.getMovementDirection", <<>>),
                           "playerPosition =", <<moved.x, moved.y>>),
                     "playerPosition.x =", <<x>>),
               "playerPosition.y =", <<y>>)
            EXCEPT !.game.playerPosition = Vector2(x, y)]))))

update(w, deltaTime, held) ==
    With(getMovementDirection(held), LAMBDA direction :
    With(add(w.game.playerPosition,
             multiply(direction, DoubleTimes(w.game.playerSpeed, deltaTime))),
         LAMBDA moved :
    With(DoubleMax(FromInt(PlayerRadius),
                   DoubleMin(DoubleMinus(w.game.width, FromInt(PlayerRadius)),
                             moved.x)),
         LAMBDA x :
    With(DoubleMax(FromInt(PlayerRadius),
                   DoubleMin(DoubleMinus(w.game.height, FromInt(PlayerRadius)),
                             moved.y)),
         LAMBDA y :
        [Trace(Trace(Trace(Trace(w, "input.getMovementDirection", <<>>),
                           "playerPosition =", <<moved.x, moved.y>>),
                     "playerPosition.x =", <<x>>),
               "playerPosition.y =", <<y>>)
            EXCEPT !.game.playerPosition = Vector2(x, y)]))))

render(w) ==
    With(Trace(Trace(w, "renderer.clear", <<>>),
               "renderer.drawCircle",
               <<w.game.playerPosition.x, w.game.playerPosition.y>>),
         LAMBDA w2 :
        Trace(IF DEBUG_MODE
              THEN Trace(w2, "renderer.drawText", <<FromInt(10), FromInt(20)>>)
              ELSE w2,
              "renderer.drawText",
              <<DoubleDiv(w.game.width, FromInt(2)), FromInt(30)>>))

\* (currentTime - this.lastTime) / 1000
DeltaTime(currentTime, lastTime) ==
    DoubleDiv(DoubleMinus(FromInt(currentTime), FromInt(lastTime)), Thousand)

gameLoopRenderFirst(w, currentTime, held) ==
    With(Trace(w, "gameLoop", <<>>), LAMBDA w0 :
        IF ~w0.game.running THEN w0
        ELSE
    With(DeltaTime(currentTime, w0.game.lastTime), LAMBDA deltaTime :
    With([Trace(w0, "performance.now", <<currentTime>>)
              EXCEPT !.game.lastTime = currentTime], LAMBDA w1 :
    With(Trace(w1, "updateFPS", <<deltaTime>>), LAMBDA w1a :
    With(updateFPS(w1a, deltaTime), LAMBDA w2 :
    With(Trace(w2, "render", <<>>), LAMBDA w2a :
    With(render(w2a), LAMBDA w3 :
    With(Trace(w3, "update", <<deltaTime>>), LAMBDA w3a :
    With(update(w3a, deltaTime, held), LAMBDA w4 :
        [Trace(w4, "requestAnimationFrame", <<>>) EXCEPT !.raf = @ + 1])))))))))

gameLoop(w, currentTime, held) ==
    With(Trace(w, "gameLoop", <<>>), LAMBDA w0 :
        IF ~w0.game.running THEN w0
        ELSE
    With(DeltaTime(currentTime, w0.game.lastTime), LAMBDA deltaTime :
    With([Trace(w0, "performance.now", <<currentTime>>)
              EXCEPT !.game.lastTime = currentTime], LAMBDA w1 :
    With(Trace(w1, "updateFPS", <<deltaTime>>), LAMBDA w1a :
    With(updateFPS(w1a, deltaTime), LAMBDA w2 :
    With(Trace(w2, "update", <<deltaTime>>), LAMBDA w2a :
    With(update(w2a, deltaTime, held), LAMBDA w3 :
    With(Trace(w3, "render", <<>>), LAMBDA w3a :
    With(render(w3a), LAMBDA w4 :
        [Trace(w4, "requestAnimationFrame", <<>>) EXCEPT !.raf = @ + 1])))))))))

startSilent(w, startTime, currentTime, held) ==
    IF w.game.running THEN Warn(w, "Game is already running")
    ELSE With([w EXCEPT !.game.running = TRUE, !.game.lastTime = startTime],
              LAMBDA w1 : gameLoop(w1, currentTime, held))

\* startTime is what performance.now() returns to start(), currentTime what
\* it returns to the gameLoop() that start() calls
start(w, startTime, currentTime, held) ==
    IF w.game.running THEN Warn(w, "Game is already running")
    ELSE With([w EXCEPT !.game.running = TRUE, !.game.lastTime = startTime],
              LAMBDA w1 :
         With(gameLoop(w1, currentTime, held), LAMBDA w2 :
             Info(w2, "Game started")))

stop(w) == Info([w EXCEPT !.game.running = FALSE], "Game stopped")

\* the browser runs the n callbacks registered before this frame, one after
\* the other; what they register is for the next frame.  Each callback reads
\* performance.now() itself: the first reads currentTime, and the clock
\* advances by tick from one callback to the next
RECURSIVE RunCallbacks(_, _, _, _, _)
RunCallbacks(w, n, currentTime, tick, held) ==
    IF n = 0 THEN w
    ELSE With(gameLoop(w, currentTime, held), LAMBDA w1 :
             RunCallbacks(w1, n - 1, currentTime + tick, tick, held))

(***************************************************************************)
(* Entry point                                                             *)
(***************************************************************************)
\* milliseconds the clock advances between two reads of performance.now()
\* made by one handler
Ticks == {0, 1}

\* most milliseconds by which the model lets these advances add up
MaxDrift == 1

\* what the advances have added to the clock: events and frames of the model
\* come at multiples of 50 ms
Drift(t) == t % 50

CanvasNotFound == "Canvas element not found"

NoContext == "Failed to get 2D context from canvas"

RendererAcceptsNoContext(c) == TRUE

\* new Renderer(canvas) returns rather than throws
RendererConstructs(c) == c.ctx

Main ==
    /\ pc = "load"
    /\ lastEvent' = "main"
    /\ UNCHANGED <<canvas, pageCalls, mousePosition, mousePressed, keys, vecVars,
                   simVars>>
    /\ IF ~canvas.present
       THEN /\ Commit(Error(Info(World, "Elemental Survivors - Starting..."),
                            CanvasNotFound))
            /\ error' = CanvasNotFound
            /\ pc' = "failed"
            /\ now' = now
       ELSE IF ~RendererConstructs(canvas)
       THEN /\ Commit(Info(World, "Elemental Survivors - Starting..."))
            /\ error' = NoContext
            /\ pc' = "failed"
            /\ now' = now
       ELSE \E tick \in Ticks :
            /\ Drift(now + tick) <= MaxDrift
            /\ \E w \in
                 {With(Info([Info(World, "Elemental Survivors - Starting...")
                                 EXCEPT !.game = NewGame(FromInt(CANVAS_WIDTH),
                                                         FromInt(CANVAS_HEIGHT))],
                            "Game initialized"), LAMBDA w2 :
                  With(start(w2, now, now + tick, keys), LAMBDA w3 :
                      Info(w3, "Elemental Survivors - Phase 1: Core Engine Running")))} :
                 Commit(w)
            /\ error' = "none"
            /\ pc' = "ready"
            /\ now' = now + tick

(***************************************************************************)
(* The running page                                                        *)
(***************************************************************************)
\* latest clock value the model lets the page reach, in milliseconds
MaxTime == 800

\* most calls of start(), stop() and setEnabled() the model lets the page make
MaxCalls == 2

\* time between two events of the page, in milliseconds
Gaps == {400}

\* key events the page receives while the game runs
GameKeys == {Key_s, Key_D}

\* start() reads the clock, twice, only when the game is not running
Start ==
    /\ pc = "ready"
    /\ pageCalls < MaxCalls
    /\ pageCalls' = pageCalls + 1
    /\ \E tick \in IF game.running THEN {0} ELSE Ticks :
          /\ now + tick <= MaxTime
          /\ Drift(now + tick) <= MaxDrift
          /\ now' = now + tick
          /\ \E w \in {start(World, now, now + tick, keys)} : Commit(w)
    /\ lastEvent' = "start"
    /\ UNCHANGED <<pc, canvas, error, inputVars, vecVars, simVars>>

Stop ==
    /\ pc = "ready"
    /\ pageCalls < MaxCalls
    /\ pageCalls' = pageCalls + 1
    /\ Commit(stop(World))
    /\ lastEvent' = "stop"
    /\ UNCHANGED <<pc, canvas, error, now, inputVars, vecVars, simVars>>

\* the next animation frame, d milliseconds later
AnimationFrame(d) ==
    /\ rafPending > 0
    /\ \E tick \in IF rafPending = 1 THEN {0} ELSE Ticks :
          /\ now + d + tick * (rafPending - 1) <= MaxTime
          /\ Drift(now + d + tick * (rafPending - 1)) <= MaxDrift
          /\ now' = now + d + tick * (rafPending - 1)
          /\ \E w \in {RunCallbacks([World EXCEPT !.raf = 0], rafPending,
                                    now + d, tick, keys)} : Commit(w)
    /\ lastEvent' = "frame"
    /\ UNCHANGED <<pc, canvas, error, pageCalls, inputVars, vecVars, simVars>>

\* d milliseconds pass while no frame is requested
TimePasses(d) ==
    /\ rafPending = 0
    /\ now + d <= MaxTime
    /\ now' = now + d
    /\ lastEvent' = "time"
    /\ UNCHANGED <<pc, canvas, error, game, rafPending, console, loggerEnabled,
                   pageCalls,
                   calls,
                   inputVars, vecVars, simVars>>

\* Logger.setEnabled(enabled), called by the page.  The entry point loads the
\* Logger and runs at once, so a call comes after it
SetEnabled(enabled) ==
    /\ pc # "load"
    /\ pageCalls < MaxCalls
    /\ pageCalls' = pageCalls + 1
    /\ loggerEnabled' = setEnabled(World, enabled).enabled
    /\ lastEvent' = "setEnabled"
    /\ UNCHANGED <<pc, canvas, error, game, now, rafPending, console, calls,
                   inputVars, vecVars, simVars>>

\* no result yet
NoResult == [op |-> "none", vec |-> zero, num |-> Zero]

Init ==
    /\ pc = "load"
    /\ canvas \in [present : BOOLEAN, ctx : BOOLEAN]
    /\ error = "none"
    /\ game = NoGame
    /\ now = 0
    /\ rafPending = 0
    /\ console = <<>>
    /\ loggerEnabled = TRUE
    /\ pageCalls = 0
    /\ calls = <<>>
    /\ keys = {}
    /\ mousePosition = Point(0, 0)
    /\ mousePressed = FALSE
    /\ lastEvent = "none"
    /\ va = zero /\ vb = zero /\ out = NoResult
    /\ args = NoArgs /\ sim = NoSim

Next ==
    \/ Main
    \/ Start
    \/ Stop
    \/ \E d \in Gaps : AnimationFrame(d)
    \/ \E d \in Gaps : TimePasses(d)
    \/ \E k \in GameKeys : KeyDown(k)
    \/ \E k \in GameKeys : KeyUp(k)
    \/ Blur
    \/ \E enabled \in BOOLEAN : SetEnabled(enabled)

Spec == Init /\ [][Next]_vars

(***************************************************************************)
(* A page whose game keeps running: the entry point starts it and a frame  *)
(* follows a frame, each running the callback the last one registered.     *)
(***************************************************************************)
\* the next animation frame, d milliseconds later and not after latest
Frame(d, latest) ==
    /\ rafPending > 0
    /\ now + d <= latest
    /\ now' = now + d
    /\ \E w \in {RunCallbacks([World EXCEPT !.raf = 0], rafPending, now + d, 0,
                              keys)} : Commit(w)
    /\ lastEvent' = "frame"
    /\ UNCHANGED <<pc, canvas, error, pageCalls, inputVars, vecVars, simVars>>

RunInit ==
    /\ Init
    /\ canvas = [present |-> TRUE, ctx |-> TRUE]

(***************************************************************************)
(* A whole run: the page starts the game and leaves it running for more    *)
(* than the duration of a game, a frame every RunGaps milliseconds.        *)
(***************************************************************************)
\* GameConfig.GAME_DURATION, in seconds
GAME_DURATION == 600

\* latest clock value of a whole run, in milliseconds
MaxRunTime == 610000

\* time between two frames of a whole run, in milliseconds
RunGaps == {10000}

RunKeys == {Key_d, Key_ArrowDown}

RunFrame(d) == Frame(d, MaxRunTime)

RunNext ==
    \/ Main
    \/ \E d \in RunGaps : RunFrame(d)
    \/ \E k \in RunKeys : KeyDown(k)
    \/ \E k \in RunKeys : KeyUp(k)

SpecRun == RunInit /\ [][RunNext]_vars

(***************************************************************************)
(* Movement: the player is steered with every combination of the four      *)
(* directions, in frames long enough to carry it past every edge.          *)
(***************************************************************************)
\* latest clock value of the movement checks, in milliseconds
MaxMoveTime == 4800

\* time between two frames of the movement checks, in milliseconds
MoveGaps == {1600, 2400}

MoveKeys == {Key_W, Key_a, Key_ArrowDown, Key_d}

MoveFrame(d) == Frame(d, MaxMoveTime)

MoveNext ==
    \/ Main
    \/ \E d \in MoveGaps : MoveFrame(d)
    \/ \E k \in MoveKeys : KeyDown(k)
    \/ \E k \in MoveKeys : KeyUp(k)

SpecMove == RunInit /\ [][MoveNext]_vars

(***************************************************************************)
(* The FPS counter: frames a tenth and a quarter of a second apart, the    *)
(* page stopping and starting the game in between.                         *)
(***************************************************************************)
\* latest clock value of the counter checks, in milliseconds
MaxFpsTime == 1300

\* time between two frames of the counter checks, in milliseconds
FpsGaps == {100, 250}

FpsFrame(d) == Frame(d, MaxFpsTime)

FpsNext ==
    \/ Main
    \/ \E d \in FpsGaps : FpsFrame(d)
    \/ Stop
    \/ Start

SpecFps == RunInit /\ [][FpsNext]_vars

(***************************************************************************)
(* Restarts: the page calls start() and stop() at any time between two     *)
(* animation frames, so that performance.now() in start() is later than    *)
(* the time of the last frame.                                             *)
(***************************************************************************)
\* milliseconds between the last frame or event and a call of start()
Delays == {0, 150}

\* start() that does not look at running
StartAfterRestarts(d) ==
    /\ pc = "ready"
    /\ pageCalls < MaxCalls
    /\ pageCalls' = pageCalls + 1
    /\ \E tick \in IF game.running THEN {0} ELSE Ticks :
          /\ now + d + tick <= MaxTime
          /\ Drift(now + d + tick) <= MaxDrift
          /\ now' = now + d + tick
          /\ \E w \in {start([World EXCEPT !.game.running = FALSE],
                             now + d, now + d + tick, keys)} : Commit(w)
    /\ lastEvent' = "start"
    /\ UNCHANGED <<pc, canvas, error, inputVars, vecVars, simVars>>

StartAfter(d) ==
    /\ pc = "ready"
    /\ pageCalls < MaxCalls
    /\ pageCalls' = pageCalls + 1
    /\ \E tick \in IF game.running THEN {0} ELSE Ticks :
          /\ now + d + tick <= MaxTime
          /\ Drift(now + d + tick) <= MaxDrift
          /\ now' = now + d + tick
          /\ \E w \in {start(World, now + d, now + d + tick, keys)} : Commit(w)
    /\ lastEvent' = "start"
    /\ UNCHANGED <<pc, canvas, error, inputVars, vecVars, simVars>>

RestartNext ==
    \/ Main
    \/ \E d \in Delays : StartAfter(d)
    \/ Stop
    \/ \E d \in Gaps : AnimationFrame(d)
    \/ \E enabled \in BOOLEAN : SetEnabled(enabled)

SpecRestart == Init /\ [][RestartNext]_vars

(***************************************************************************)
(* Input on its own: the page after a successful start, receiving every    *)
(* event the Input listens to.                                             *)
(***************************************************************************)
\* clientX, clientY of the mousemove events of the model
MousePoints == {<<100, 50>>}

InputInit ==
    /\ pc = "ready"
    /\ canvas = [present |-> TRUE, ctx |-> TRUE]
    /\ error = "none"
    /\ game = NewGame(FromInt(CANVAS_WIDTH), FromInt(CANVAS_HEIGHT))
    /\ now = 0
    /\ rafPending = 0
    /\ console = <<>>
    /\ loggerEnabled = TRUE
    /\ pageCalls = 0
    /\ calls = <<>>
    /\ keys = {}
    /\ mousePosition = Point(0, 0)
    /\ mousePressed = FALSE
    /\ lastEvent = "none"
    /\ va = zero /\ vb = zero /\ out = NoResult
    /\ args = NoArgs /\ sim = NoSim

\* the caller polls the movement direction
PollDirection ==
    /\ Listening
    /\ out' = [op |-> "getMovementDirection",
               vec |-> getMovementDirection(keys), num |-> Zero]
    /\ lastEvent' = "poll"
    /\ UNCHANGED <<gameVars, inputVars, va, vb, simVars>>

InputNext ==
    \/ PollDirection
    \/ \E k \in KeyNames : KeyDown(k)
    \/ \E k \in KeyNames : KeyUp(k)
    \/ \E m \in MousePoints : MouseMove(m[1], m[2])
    \/ MouseDown
    \/ MouseUp
    \/ Blur
    \/ InputClear

SpecInput == InputInit /\ [][InputNext]_vars

(***************************************************************************)
(* Vector2 as a pure library: the operands are drawn from a grid of whole  *)
(* numbers and from vectors far from it, and one call applies one          *)
(* operation to them, leaving its result in out.                           *)
(***************************************************************************)
\* largest coordinate of the grid of whole numbers
MaxCoord == 3

Coords == {FromInt(n) : n \in -MaxCoord..MaxCoord}

Vectors == {Vector2(x, y) : x \in Coords, y \in Coords}

\* 2^-600, whose square is below the smallest double
Tiny == Double(FALSE, -652, <<0, 0, 0, 1024>>)

\* 2^600, whose square is above the largest double
Giant == Double(FALSE, 548, <<0, 0, 0, 1024>>)

\* coordinates off the grid: a thousandth of a pixel, a length beyond the
\* 32-bit integers in thousandths, and the two above
FarCoords ==
    {Zero, DoubleDiv(FromInt(1), Thousand), FromInt(5000), Tiny, Negate(Tiny),
     Giant}

FarVectors == {Vector2(x, y) : x \in FarCoords, y \in FarCoords}

\* scalars: negative, zero, a fraction, positive
Scalars == {FromInt(-2), Zero, Half, FromInt(3)}

VecResult(op, v) == [op |-> op, vec |-> v, num |-> Zero]

NumResult(op, n) == [op |-> op, vec |-> zero, num |-> n]

VecInit ==
    /\ va \in Vectors \cup FarVectors
    /\ vb \in Vectors
    /\ out = NoResult
    /\ pc = "load"
    /\ canvas = [present |-> TRUE, ctx |-> TRUE]
    /\ error = "none"
    /\ game = NoGame
    /\ now = 0
    /\ rafPending = 0
    /\ console = <<>>
    /\ loggerEnabled = TRUE
    /\ pageCalls = 0
    /\ calls = <<>>
    /\ keys = {}
    /\ mousePosition = Point(0, 0)
    /\ mousePressed = FALSE
    /\ lastEvent = "none"
    /\ args = NoArgs /\ sim = NoSim

VecFrame == UNCHANGED <<va, vb, gameVars, inputVars, lastEvent, simVars>>

CallAdd ==
    /\ out = NoResult
    /\ out' = VecResult("add", add(va, vb))
    /\ VecFrame

CallSubtract ==
    /\ out = NoResult
    /\ out' = VecResult("subtract", subtract(va, vb))
    /\ VecFrame

\* the result keeps the scalar of the call
CallMultiply(scalar) ==
    /\ out = NoResult
    /\ out' = [op |-> "multiply", vec |-> multiply(va, scalar), num |-> Zero,
               scalar |-> scalar]
    /\ VecFrame

CallLength ==
    /\ out = NoResult
    /\ out' = NumResult("length", length(va))
    /\ VecFrame

CallNormalize ==
    /\ out = NoResult
    /\ out' = VecResult("normalize", normalize(va))
    /\ VecFrame

CallClone ==
    /\ out = NoResult
    /\ out' = VecResult("clone", clone(va))
    /\ VecFrame

CallDistance ==
    /\ out = NoResult
    /\ out' = NumResult("distance", distance(va, vb))
    /\ VecFrame

VecNext ==
    \/ CallAdd
    \/ CallSubtract
    \/ \E scalar \in Scalars : CallMultiply(scalar)
    \/ CallLength
    \/ CallNormalize
    \/ CallClone
    \/ CallDistance

SpecVector == VecInit /\ [][VecNext]_vars

(***************************************************************************)
(* MathUtils                                                               *)
(***************************************************************************)
\* clamp without the upper limit
clampNoUpper(value, min, max) == DoubleMax(value, min)

clamp(value, min, max) == DoubleMin(DoubleMax(value, min), max)

\* startAt is the parameter start of the source
lerp(startAt, end, t) ==
    DoublePlus(startAt, DoubleTimes(DoubleMinus(end, startAt), t))

\* random is the value Math.random() returned
randomRange(min, max, random) ==
    DoublePlus(DoubleTimes(random, DoubleMinus(max, min)), min)

\* randomInt that never returns max
randomIntExclusive(min, max, random) ==
    DoublePlus(DoubleFloor(DoubleTimes(random, DoubleMinus(max, min))), min)

randomInt(min, max, random) ==
    DoublePlus(
        DoubleFloor(DoubleTimes(random,
                                DoublePlus(DoubleMinus(max, min), FromInt(1)))),
        min)

(***************************************************************************)
(* The simulation of a run. The repository sets its configuration and      *)
(* declares its entities; the systems that update them (spawn scheduler,   *)
(* collision and combat, progression) follow the specification.  They     *)
(* move the entities with Vector2; the times, hit points and experience    *)
(* they keep are counted in thousandths, which add up without rounding.    *)
(***************************************************************************)
\* thousandths in a unit
Scale == 1000

Num(n) == n * Scale

\* n / d truncated toward zero (d > 0)
Trunc(n, d) == IF n >= 0 THEN n \div d ELSE -((-n) \div d)

\* a * b on amounts in thousandths
Mul(a, b) == Trunc(a * b, Scale)

\* a time in thousandths of a second as a deltaTime in seconds
Seconds(t) == DoubleDiv(FromInt(t), Thousand)

\* the sequence of F(e) for the elements e of seq
Each(seq, F(_)) == SubSeq([i \in 1..Len(seq) |-> F(seq[i])], 1, Len(seq))

\* EnemyConfig, times in 1/Scale s
INITIAL_SPAWN_INTERVAL == 2000

MIN_SPAWN_INTERVAL == 500

SPAWN_INTERVAL_DECREASE_RATE == 950

MAX_ENEMIES == 100

SPAWN_DISTANCE == 50

BASIC_ENEMY_HP == 20

BASIC_ENEMY_SPEED == 80

BASIC_ENEMY_DAMAGE == 10

BASIC_ENEMY_RADIUS == 15

BASIC_ENEMY_EXPERIENCE_VALUE == 1

\* BalanceConfig.DIFFICULTY, in seconds
SPAWN_RATE_INCREASE_INTERVAL == 10

\* BalanceConfig.EXPERIENCE_ORB
COLLECTION_RANGE == 30

MAGNET_RANGE == 150

MAGNET_SPEED == 300

ORB_LIFETIME == 10

\* WeaponConfig.BASIC_WEAPON
INITIAL_DAMAGE == 10

INITIAL_ATTACK_SPEED == 1

INITIAL_RANGE == 100

DAMAGE_PER_LEVEL == 5

\* the player takes contact damage at most once in this many seconds
DAMAGE_COOLDOWN == 1

\* PlayerConfig
INITIAL_HP == 100

EXPERIENCE_PER_LEVEL == 10

INITIAL_MAX_HP == 100

INITIAL_SPEED == 200

INITIAL_LEVEL == 1

\* GameState: the run is RUNNING, AWAITING_UPGRADE_CHOICE or ENDED
PLAYING == "playing"

LEVEL_UP == "levelup"

GAME_OVER == "gameover"

\* the fields IPlayer declares, IEntity's among them
NewPlayer ==
    [position |-> Vector2(DoubleDiv(FromInt(CANVAS_WIDTH), FromInt(2)),
                          DoubleDiv(FromInt(CANVAS_HEIGHT), FromInt(2))),
     active |-> TRUE,
     hp |-> Num(INITIAL_HP), maxHp |-> Num(INITIAL_MAX_HP),
     speed |-> FromInt(INITIAL_SPEED),
     experience |-> 0, level |-> INITIAL_LEVEL]

\* the fields IEnemy declares, IEntity's among them
NewEnemy(position) ==
    [position |-> position, active |-> TRUE,
     hp |-> Num(BASIC_ENEMY_HP), maxHp |-> Num(BASIC_ENEMY_HP),
     speed |-> FromInt(BASIC_ENEMY_SPEED),
     damage |-> Num(BASIC_ENEMY_DAMAGE),
     experienceValue |-> Num(BASIC_ENEMY_EXPERIENCE_VALUE)]

\* a run at its start; scenario and startedAt tell where the simulation
\* checks took the run up, spawnAttempts, spawned and levelUps observe what the
\* last update did, hits counts the damage the player took and ticks the
\* updates applied; damageCooldown is the time until the player can take
\* contact damage again
NewRun ==
    [state |-> PLAYING, scenario |-> "start", startedAt |-> 0,
     elapsedTime |-> 0, timeSinceLastSpawn |-> 0,
     currentInterval |-> INITIAL_SPAWN_INTERVAL,
     spawnAttempts |-> 0, spawned |-> 0,
     player |-> NewPlayer, damageCooldown |-> 0,
     weaponCooldown |-> 0, weaponLevel |-> 1,
     enemies |-> <<>>, pickups |-> <<>>,
     pendingChoices |-> 0, levelUps |-> 0, hits |-> 0, ticks |-> 0]

\* the page of the component checks: nothing of it runs
PageIdle ==
    /\ pc = "load"
    /\ canvas = [present |-> TRUE, ctx |-> TRUE]
    /\ error = "none"
    /\ game = NoGame
    /\ now = 0
    /\ rafPending = 0
    /\ console = <<>>
    /\ loggerEnabled = TRUE
    /\ pageCalls = 0
    /\ calls = <<>>
    /\ keys = {}
    /\ mousePosition = Point(0, 0)
    /\ mousePressed = FALSE
    /\ lastEvent = "none"
    /\ va = zero /\ vb = zero /\ out = NoResult

SimFrame == UNCHANGED <<gameVars, inputVars, vecVars, args>>

(***************************************************************************)
(* Spawn scheduler                                                         *)
(***************************************************************************)
\* n more decreases of 5 % of the interval, which are over at the minimum
RECURSIVE Decay(_, _)
Decay(interval, n) ==
    IF n = 0 \/ interval <= MIN_SPAWN_INTERVAL THEN interval
    ELSE Decay(Mul(interval, SPAWN_INTERVAL_DECREASE_RATE), n - 1)

getSpawnIntervalNoFloor(elapsedTime) ==
    Decay(INITIAL_SPAWN_INTERVAL, elapsedTime \div Num(SPAWN_RATE_INCREASE_INTERVAL))

\* the spawn interval, a function of the elapsed time alone
getSpawnInterval(elapsedTime) ==
    MathMax(MIN_SPAWN_INTERVAL,
            Decay(INITIAL_SPAWN_INTERVAL,
                  elapsedTime \div Num(SPAWN_RATE_INCREASE_INTERVAL)))

\* just outside the visible area, on one side of it
SpawnSides == {"left", "right"}

spawnPosition(playerPosition, side) ==
    Vector2(IF side = "left" THEN Negate(FromInt(SPAWN_DISTANCE))
            ELSE DoublePlus(FromInt(CANVAS_WIDTH), FromInt(SPAWN_DISTANCE)),
            playerPosition.y)

spawnEnemyNoCap(s, position) ==
    [s EXCEPT !.enemies = Append(@, NewEnemy(position)), !.spawned = @ + 1]

\* one spawn attempt: skipped when the population is at its cap
spawnEnemy(s, position) ==
    IF Len(s.enemies) < MAX_ENEMIES
    THEN [s EXCEPT !.enemies = Append(@, NewEnemy(position)), !.spawned = @ + 1]
    ELSE s

\* one attempt for every interval the timer covers
RECURSIVE SpawnLoop(_, _)
SpawnLoop(s, position) ==
    IF s.timeSinceLastSpawn < s.currentInterval THEN s
    ELSE SpawnLoop(spawnEnemy([s EXCEPT !.timeSinceLastSpawn = @ - s.currentInterval,
                                        !.spawnAttempts = @ + 1],
                              position),
                   position)

spawnUpdateZeroing(s, deltaTime, position) ==
    With([s EXCEPT !.elapsedTime = @ + deltaTime,
                   !.timeSinceLastSpawn = @ + deltaTime,
                   !.currentInterval = getSpawnInterval(s.elapsedTime + deltaTime),
                   !.spawnAttempts = 0, !.spawned = 0], LAMBDA s1 :
        IF s1.timeSinceLastSpawn < s1.currentInterval THEN s1
        ELSE spawnEnemy([s1 EXCEPT !.timeSinceLastSpawn = 0, !.spawnAttempts = 1],
                        position))

\* SpawnScheduler.update(dt, playerPosition)
spawnUpdate(s, deltaTime, position) ==
    With([s EXCEPT !.elapsedTime = @ + deltaTime,
                   !.timeSinceLastSpawn = @ + deltaTime,
                   !.currentInterval = getSpawnInterval(s.elapsedTime + deltaTime),
                   !.spawnAttempts = 0, !.spawned = 0], LAMBDA s1 :
        SpawnLoop(s1, position))

\* the scheduler checks follow a run closely for this long after each long
\* update, in 1/Scale s
MaxSpawnTime == 12000

\* latest elapsed time at which the scheduler checks start a long update,
\* in 1/Scale s
MaxLongTime == 280000

\* the deltaTime of a long update (a stalled page), in 1/Scale s
LongGap == 70000

\* the deltaTime of a scheduler update, in 1/Scale s
SpawnGaps == {1700, 5000}

SchedulerUpdate(dt) ==
    /\ sim.state = PLAYING
    /\ IF dt = LongGap
       THEN sim.elapsedTime % LongGap = 0 /\ sim.elapsedTime <= MaxLongTime
       ELSE (sim.elapsedTime % LongGap) + dt <= MaxSpawnTime
    /\ \E position \in {spawnPosition(sim.player.position, "right")} :
          \E s \in {sim} : sim' = spawnUpdate(s, dt, position)
    /\ lastEvent' = "spawn"
    /\ SimFrame

\* fewest enemies the deaths of the scheduler checks leave
MinEnemies == 60

\* an enemy is destroyed and leaves the registry
EnemyDies ==
    /\ sim.state = PLAYING
    /\ Len(sim.enemies) > MinEnemies
    /\ sim' = [sim EXCEPT !.enemies = Tail(@)]
    /\ lastEvent' = "kill"
    /\ SimFrame

SpawnInit ==
    /\ PageIdle
    /\ args = NoArgs
    /\ sim = NewRun

SpawnNext ==
    \/ \E dt \in SpawnGaps \cup {LongGap} : SchedulerUpdate(dt)
    \/ EnemyDies

SpecSpawn == SpawnInit /\ [][SpawnNext]_vars

(***************************************************************************)
(* Collision                                                               *)
(***************************************************************************)
checkCircleCollisionInclusive(pos1, radius1, pos2, radius2) ==
    DoubleLeq(distance(pos1, pos2), DoublePlus(radius1, radius2))

\* two circles collide when their centres are closer than the sum of their
\* radii
checkCircleCollision(pos1, radius1, pos2, radius2) ==
    DoubleLess(distance(pos1, pos2), DoublePlus(radius1, radius2))

\* coordinates and radii of the circles the collision checks draw, in pixels
CollisionCoords == {0, 7, 15, 20, 24, 25, 26}

CollisionOrigins == {<<0, 0>>, <<24, 0>>, <<7, 26>>}

CollisionRadii == {10, 15, PlayerRadius}

CollisionInit ==
    /\ PageIdle
    /\ sim = NoSim
    /\ args \in [op : {"checkCircleCollision"},
                 pos1 : CollisionOrigins,
                 radius1 : CollisionRadii,
                 pos2 : CollisionCoords \X CollisionCoords,
                 radius2 : CollisionRadii]

CallCheckCircleCollision ==
    /\ args.op = "checkCircleCollision"
    /\ out' = [op |-> "checkCircleCollision", vec |-> zero, num |-> Zero,
               hit |-> checkCircleCollision(
                           Point(args.pos1[1], args.pos1[2]), FromInt(args.radius1),
                           Point(args.pos2[1], args.pos2[2]), FromInt(args.radius2))]
    /\ lastEvent' = "collision"
    /\ UNCHANGED <<va, vb, gameVars, inputVars, simVars>>

CollisionNext == CallCheckCircleCollision

SpecCollision == CollisionInit /\ [][CollisionNext]_vars

(***************************************************************************)
(* MathUtils as a pure library: three arguments are drawn from a set of    *)
(* doubles, one call applies one function to them and leaves its result in *)
(* out.  Math.random() returns any of Randoms: the multiples of 1/16       *)
(* below 1 and the largest double below 1.                                 *)
(***************************************************************************)
\* 2^54, above the range where every integer is a double
Huge == Double(FALSE, 2, <<0, 0, 0, 1024>>)

\* 1 - 2^-53, the largest double below 1
BelowOne == Double(FALSE, -53, <<16383, 16383, 16383, 2047>>)

MathIntegers == {-2, -1, 0, 1, 2, 10}

MathValues ==
    {FromInt(n) : n \in MathIntegers} \cup {MinusZero, Half, Tenth, Huge}

Randoms == {DoubleDiv(FromInt(j), FromInt(16)) : j \in 0..15} \cup {BelowOne}

MathResult(op, n, random) ==
    [op |-> op, vec |-> zero, num |-> n, random |-> random]

MathInit ==
    /\ PageIdle
    /\ sim = NoSim
    /\ args \in [op : {"MathUtils"},
                 x : MathValues, y : MathValues, z : MathValues]

MathFrame == UNCHANGED <<va, vb, gameVars, inputVars, simVars>>

CallClamp ==
    /\ args.op = "MathUtils" /\ out = NoResult
    /\ out' = MathResult("clamp", clamp(args.x, args.y, args.z), Zero)
    /\ lastEvent' = "clamp"
    /\ MathFrame

CallLerp ==
    /\ args.op = "MathUtils" /\ out = NoResult
    /\ out' = MathResult("lerp", lerp(args.x, args.y, args.z), Zero)
    /\ lastEvent' = "lerp"
    /\ MathFrame

CallRandomRange ==
    /\ args.op = "MathUtils" /\ out = NoResult
    /\ \E random \in Randoms :
          out' = MathResult("randomRange",
                            randomRange(args.x, args.y, random), random)
    /\ lastEvent' = "randomRange"
    /\ MathFrame

CallRandomInt ==
    /\ args.op = "MathUtils" /\ out = NoResult
    /\ \E random \in Randoms :
          out' = MathResult("randomInt",
                            randomInt(args.x, args.y, random), random)
    /\ lastEvent' = "randomInt"
    /\ MathFrame

MathNext ==
    \/ CallClamp
    \/ CallLerp
    \/ CallRandomRange
    \/ CallRandomInt

SpecMath == MathInit /\ [][MathNext]_vars

(***************************************************************************)
(* Progression                                                             *)
(***************************************************************************)
\* experience a level asks for on top of the base, per level
EXPERIENCE_PER_LEVEL_GROWTH == 5

\* experience needed to leave the level: 10 + (level * 5)
getExperienceToNext(level) ==
    Num(EXPERIENCE_PER_LEVEL) + level * Num(EXPERIENCE_PER_LEVEL_GROWTH)

levelUpDropsSurplus(s) ==
    [s EXCEPT !.player.experience = 0,
              !.player.level = @ + 1,
              !.levelUps = @ + 1,
              !.pendingChoices = @ + 1,
              !.state = LEVEL_UP]

\* one level-up: the threshold is consumed, the surplus stays, and the run
\* awaits the choice of an upgrade
levelUp(s) ==
    [s EXCEPT !.player.experience = @ - getExperienceToNext(s.player.level),
              !.player.level = @ + 1,
              !.levelUps = @ + 1,
              !.pendingChoices = @ + 1,
              !.state = LEVEL_UP]

RECURSIVE LevelLoop(_)
LevelLoop(s) ==
    IF s.player.experience < getExperienceToNext(s.player.level) THEN s
    ELSE With(levelUp(s), LAMBDA s1 : LevelLoop(s1))

addExperience(s, amount) ==
    With([s EXCEPT !.player.experience = @ + amount, !.levelUps = 0],
         LAMBDA s1 : LevelLoop(s1))

\* the player's selection: the upgrade is applied, and the run resumes once
\* no level-up is left without its choice
chooseUpgrade(s) ==
    IF s.pendingChoices = 1
    THEN [s EXCEPT !.weaponLevel = @ + 1, !.pendingChoices = 0,
                   !.state = PLAYING]
    ELSE [s EXCEPT !.weaponLevel = @ + 1, !.pendingChoices = @ - 1]

\* highest level from which the progression checks add experience
MaxLevel == 4

\* experience of a pickup, or of the pickups of one update
ExperienceGains == {Num(1), Num(7), Num(15), Num(40)}

AddExperience(amount) ==
    /\ sim.state = PLAYING
    /\ sim.player.level <= MaxLevel
    /\ sim' = addExperience(sim, amount)
    /\ args' = [op |-> "addExperience", amount |-> amount]
    /\ lastEvent' = "experience"
    /\ UNCHANGED <<gameVars, inputVars, vecVars>>

ChooseUpgrade ==
    /\ sim.state = LEVEL_UP
    /\ sim' = chooseUpgrade(sim)
    /\ lastEvent' = "choice"
    /\ SimFrame

ProgressInit ==
    /\ PageIdle
    /\ args = NoArgs
    /\ sim = NewRun

ProgressNext ==
    \/ \E amount \in ExperienceGains : AddExperience(amount)
    \/ ChooseUpgrade

SpecProgress == ProgressInit /\ [][ProgressNext]_vars

(***************************************************************************)
(* A tick of a run.  Game.update moves the player, as in every frame; the  *)
(* systems follow on the entities: enemy movement, weapon, spawn           *)
(* scheduler, collision and combat, progression, in this order, and only   *)
(* while the run is PLAYING.                                               *)
(***************************************************************************)
\* the sequence without its i-th element
RemoveAt(seq, i) == SubSeq(seq, 1, i - 1) \o SubSeq(seq, i + 1, Len(seq))

\* a step of the given speed from position toward target
stepToward(position, target, speed, deltaTime) ==
    add(position,
        multiply(normalize(subtract(target, position)),
                 DoubleTimes(speed, deltaTime)))

moveEnemies(s, deltaTime) ==
    [s EXCEPT !.enemies =
        Each(@, LAMBDA enemy :
            [enemy EXCEPT !.position =
                stepToward(@, s.player.position, FromInt(BASIC_ENEMY_SPEED),
                           deltaTime)])]

\* the nearest enemy within the range of the weapon, the first of them on a
\* tie; 0 when there is none
nearestInRange(s) ==
    With(Each(s.enemies, LAMBDA enemy :
             distance(s.player.position, enemy.position)), LAMBDA d :
    With({i \in 1..Len(d) : DoubleLeq(d[i], FromInt(INITIAL_RANGE))},
         LAMBDA inRange :
        IF inRange = {} THEN 0
        ELSE CHOOSE i \in inRange :
                 \A j \in inRange :
                     DoubleLess(d[i], d[j]) \/ (NumEq(d[i], d[j]) /\ i <= j)))

\* the weapon hits enemy i: at hp <= 0 the enemy leaves and drops a pickup
hitEnemy(s, i) ==
    IF s.enemies[i].hp
           > Num(INITIAL_DAMAGE) + (s.weaponLevel - 1) * Num(DAMAGE_PER_LEVEL)
    THEN [s EXCEPT !.enemies[i].hp =
              @ - (Num(INITIAL_DAMAGE) + (s.weaponLevel - 1) * Num(DAMAGE_PER_LEVEL))]
    ELSE [s EXCEPT !.enemies = RemoveAt(@, i),
                   !.pickups = Append(@, [position |-> s.enemies[i].position,
                                          value |-> Num(BASIC_ENEMY_EXPERIENCE_VALUE),
                                          lifetime |-> Num(ORB_LIFETIME)])]

weaponUpdate(s, deltaTime) ==
    IF s.weaponCooldown - deltaTime > 0
    THEN [s EXCEPT !.weaponCooldown = @ - deltaTime]
    ELSE With(nearestInRange(s), LAMBDA target :
             IF target = 0
             THEN [s EXCEPT !.weaponCooldown = Num(INITIAL_ATTACK_SPEED)]
             ELSE hitEnemy([s EXCEPT !.weaponCooldown = Num(INITIAL_ATTACK_SPEED)],
                           target))

takeDamage(player, amount) ==
    [player EXCEPT !.hp = MathMax(0, MathMin(player.maxHp, @ - amount))]

\* the enemies that touch the player
touching(s) ==
    {i \in 1..Len(s.enemies) :
        checkCircleCollision(s.player.position, FromInt(PlayerRadius),
                             s.enemies[i].position, FromInt(BASIC_ENEMY_RADIUS))}

contactDamageEveryTick(s, deltaTime) ==
    With(touching(s), LAMBDA hit :
        IF hit # {}
        THEN [s EXCEPT !.player =
                  takeDamage(@, s.enemies[CHOOSE i \in hit :
                                              \A j \in hit : i <= j].damage),
                       !.hits = @ + 1]
        ELSE s)

\* an enemy that touches the player damages it, once per DAMAGE_COOLDOWN
contactDamage(s, deltaTime) ==
    IF s.damageCooldown - deltaTime > 0
    THEN [s EXCEPT !.damageCooldown = @ - deltaTime]
    ELSE With(touching(s), LAMBDA hit :
             IF hit # {}
             THEN [s EXCEPT !.player =
                       takeDamage(@, s.enemies[CHOOSE i \in hit :
                                                   \A j \in hit : i <= j].damage),
                            !.damageCooldown = Num(DAMAGE_COOLDOWN),
                            !.hits = @ + 1]
             ELSE [s EXCEPT !.damageCooldown = 0])

RECURSIVE SumValues(_)
SumValues(orbs) == IF orbs = <<>> THEN 0 ELSE Head(orbs).value + SumValues(Tail(orbs))

\* pickups in collection range are collected, those in magnet range come
\* closer, those past their lifetime disappear; deltaTime is in 1/Scale s
collectPickups(s, deltaTime) ==
    With(Each(s.pickups, LAMBDA orb :
             [orb |-> orb,
              far |-> distance(s.player.position, orb.position)]), LAMBDA seen :
    With(SelectSeq(seen, LAMBDA e :
             /\ ~DoubleLess(e.far, FromInt(COLLECTION_RANGE))
             /\ e.orb.lifetime - deltaTime > 0), LAMBDA kept :
    With([s EXCEPT !.pickups =
             Each(kept, LAMBDA e :
                 [e.orb EXCEPT !.lifetime = @ - deltaTime,
                               !.position =
                                   IF DoubleLess(e.far, FromInt(MAGNET_RANGE))
                                   THEN stepToward(@, s.player.position,
                                                   FromInt(MAGNET_SPEED),
                                                   Seconds(deltaTime))
                                   ELSE @])], LAMBDA s1 :
        addExperience(s1,
            SumValues(Each(SelectSeq(seen, LAMBDA e :
                               DoubleLess(e.far, FromInt(COLLECTION_RANGE))),
                           LAMBDA e : e.orb))))))

\* the run ends when the player is defeated or its time is up
endCheck(s) ==
    IF s.player.hp <= 0 \/ s.elapsedTime >= Num(GAME_DURATION)
    THEN [s EXCEPT !.state = GAME_OVER]
    ELSE s

\* the systems of a tick, deltaTime in 1/Scale s, around a player that the
\* frame has moved
systemsUpdate(s, deltaTime, side) ==
    IF s.state # PLAYING THEN s
    ELSE
    With(moveEnemies([s EXCEPT !.ticks = @ + 1], Seconds(deltaTime)), LAMBDA s1 :
    With(weaponUpdate(s1, deltaTime), LAMBDA s2 :
    With(spawnPosition(s2.player.position, side), LAMBDA position :
    With(spawnUpdate(s2, deltaTime, position), LAMBDA s3 :
    With(contactDamage(s3, deltaTime), LAMBDA s4 :
    With(collectPickups(s4, deltaTime), LAMBDA s5 :
        endCheck(s5)))))))

\* latest clock value of the simulation checks, in milliseconds
MaxSimTime == 3000

\* the deltaTime of a tick, in 1/Scale s
SimGaps == {100, 1000}

\* the keys held throughout a simulation check
SimKeySets == {{}, {Key_a}}

\* an enemy that outlasts the check, next to the player
Sturdy(damage) ==
    [NewEnemy(add(NewPlayer.position, Point(10, 0)))
         EXCEPT !.hp = Num(100), !.maxHp = Num(100), !.damage = Num(damage)]

Fixture(name, elapsed, experience, enemies) ==
    [NewRun EXCEPT !.scenario = name,
                   !.startedAt = elapsed,
                   !.elapsedTime = elapsed,
                   !.currentInterval = getSpawnInterval(elapsed),
                   !.player.experience = experience,
                   !.enemies = enemies]

\* the runs the simulation checks take up: at the start, with an enemy on
\* the player, one kill short of a level-up, and half a second before the
\* time is up
Fixtures ==
    {NewRun,
     Fixture("contact", 0, 0, <<Sturdy(BASIC_ENEMY_DAMAGE)>>),
     Fixture("heavy", 0, 0, <<Sturdy(35)>>),
     Fixture("levelup", Num(60), Num(14),
             <<[NewEnemy(add(NewPlayer.position, Point(30, 0)))
                    EXCEPT !.hp = Num(INITIAL_DAMAGE)],
               NewEnemy(add(NewPlayer.position, Point(300, 0)))>>),
     Fixture("timeup", Num(GAME_DURATION) - 500, 0, <<>>)}

\* the tick makes a spawn attempt; one that makes none is the same on
\* either side
Spawning(s, dt) ==
    /\ s.state = PLAYING
    /\ s.timeSinceLastSpawn + dt >= getSpawnInterval(s.elapsedTime + dt)

\* a tick of dt thousandths of a second: the frame's update moves the
\* player, whatever the state of the run, and the systems follow
SimTick(dt, side) ==
    /\ sim.state # "none"
    /\ side = "left" \/ Spawning(sim, dt)
    /\ now + dt <= MaxSimTime
    /\ now' = now + dt
    /\ \E w \in {update(World, Seconds(dt), keys)} :
          /\ Commit(w)
          /\ \E s \in {[sim EXCEPT !.player.position = w.game.playerPosition]} :
                sim' = systemsUpdate(s, dt, side)
    /\ lastEvent' = "tick"
    /\ UNCHANGED <<pc, canvas, error, pageCalls, inputVars, vecVars, args>>

SimInit ==
    /\ pc = "ready"
    /\ canvas = [present |-> TRUE, ctx |-> TRUE]
    /\ error = "none"
    /\ game = NewGame(FromInt(CANVAS_WIDTH), FromInt(CANVAS_HEIGHT))
    /\ now = 0
    /\ rafPending = 0
    /\ console = <<>>
    /\ loggerEnabled = TRUE
    /\ pageCalls = 0
    /\ calls = <<>>
    /\ keys \in SimKeySets
    /\ mousePosition = Point(0, 0)
    /\ mousePressed = FALSE
    /\ lastEvent = "none"
    /\ va = zero /\ vb = zero /\ out = NoResult
    /\ args = NoArgs
    /\ sim \in Fixtures

SimNext ==
    \/ \E dt \in SimGaps : \E side \in SpawnSides : SimTick(dt, side)
    \/ ChooseUpgrade

SpecSim == SimInit /\ [][SimNext]_vars

(***************************************************************************)
(* Properties                                                              *)
(***************************************************************************)
Indices(op) == {i \in 1..Len(calls) : calls[i].op = op}

\* the sign of a number: -1, 0 or 1
Sign(x) == IF IsZero(x) THEN 0 ELSE IF x.neg THEN -1 ELSE 1

\* v and w have the same components, -0 and +0 being the same number
VecEq(v, w) == NumEq(v.x, w.x) /\ NumEq(v.y, w.y)

\* the whole number a coordinate of the grid stands for
Whole(x) == CHOOSE n \in -MaxCoord..MaxCoord : NumEq(FromInt(n), x)

\* toBeCloseTo of the unit tests: within 0.005
Tolerance == DoubleDiv(FromInt(5), Thousand)

\* 100 ms, as a deltaTime in seconds
MaxDeltaTime == Tenth

ArenaCenter ==
    Vector2(DoubleDiv(FromInt(CANVAS_WIDTH), FromInt(2)),
            DoubleDiv(FromInt(CANVAS_HEIGHT), FromInt(2)))

\* C1: update never receives a deltaTime above the 100 ms bound, whatever the
\* gap between two ticks.
C1_DeltaTimeClamped ==
    \A i \in Indices("update") : DoubleLeq(calls[i].arg[1], MaxDeltaTime)

\* C2: once stop() has returned no gameLoop callback remains registered with
\* requestAnimationFrame, and a frame of a stopped game runs no update and no
\* render.
C2_StopCancelsFrame ==
    (pc = "ready" /\ ~game.running) =>
        /\ rafPending = 0
        /\ lastEvent = "frame" => Indices("update") \cup Indices("render") = {}

\* what one tick of a running game does, in order
TickOrder ==
    <<"performance.now", "updateFPS",
      "update", "input.getMovementDirection",
      "playerPosition =", "playerPosition.x =", "playerPosition.y =",
      "render", "renderer.clear", "renderer.drawCircle", "renderer.drawText",
      "requestAnimationFrame">>

\* last index of the gameLoop invocation that starts at index i
TickEnd(i) ==
    LET later == {j \in Indices("gameLoop") : j > i}
    IN  IF later = {} THEN Len(calls)
        ELSE (CHOOSE j \in later : \A k \in later : j <= k) - 1

\* C3: in every tick the input is polled exactly once, at the start of the
\* update phase, then the player position is updated, and render runs only
\* after that update and draws the position the update left; a tick is
\* complete before the next one starts.
C3_PhaseOrder ==
    /\ calls # <<>> => calls[1].op = "gameLoop"
    /\ \A i \in Indices("gameLoop") :
          LET body == SubSeq(calls, i + 1, TickEnd(i))
          IN  \/ body = <<>>
              \/ /\ [k \in 1..Len(body) |-> body[k].op] = TickOrder
                 /\ body[10].arg = <<body[6].arg[1], body[7].arg[1]>>
    /\ (Indices("renderer.drawCircle") # {} /\ lastEvent \in {"main", "start", "frame"}) =>
          LET last == CHOOSE i \in Indices("renderer.drawCircle") :
                          \A j \in Indices("renderer.drawCircle") : j <= i
          IN  calls[last].arg = <<game.playerPosition.x, game.playerPosition.y>>

C3_Witness ==
    /\ lastEvent = "frame"
    /\ \E i \in Indices("renderer.drawCircle") :
          /\ calls[i].arg = <<game.playerPosition.x, game.playerPosition.y>>
          /\ calls[i].arg # <<ArenaCenter.x, ArenaCenter.y>>

\* C4: normalize of the zero vector is the zero vector; of any other vector
\* it is a vector of length 1, granting the rounding tolerance of the unit
\* tests, in the same direction.
C4_Normalize ==
    out.op = "normalize" =>
        IF VecEq(va, zero) THEN VecEq(out.vec, zero)
        ELSE /\ DoubleLeq(DoubleAbs(DoubleMinus(length(out.vec), FromInt(1))),
                          Tolerance)
             /\ Sign(out.vec.x) = Sign(va.x)
             /\ Sign(out.vec.y) = Sign(va.y)
             /\ DoubleLeq(DoubleAbs(DoubleMinus(DoubleTimes(va.x, out.vec.y),
                                                DoubleTimes(va.y, out.vec.x))),
                          DoubleTimes(Tolerance, length(va)))

\* C5: distance(a, b) = distance(b, a), and distance(a, a) = 0.
C5_DistanceSymmetric ==
    out.op = "distance" =>
        /\ out.num = distance(vb, va)
        /\ va = vb => out.num = Zero

C5_Witness ==
    /\ out.op = "distance"
    /\ va = Point(-1, -1)
    /\ vb = Point(2, 3)
    /\ out.num = FromInt(5)

\* C6: no code assigns the x or y of a Vector2 that already exists; the
\* per-frame update replaces the player position.
C6_NoInPlaceWrite ==
    Indices("playerPosition.x =") \cup Indices("playerPosition.y =") = {}

\* C7: without the canvas element or without a 2D context the entry point
\* aborts with the descriptive error; start() is not reached and no update
\* or render ever runs.
C7_StartupFailureIsFatal ==
    (pc # "load" /\ (~canvas.present \/ ~canvas.ctx)) =>
        /\ pc = "failed"
        /\ error = (IF canvas.present THEN NoContext ELSE CanvasNotFound)
        /\ game = NoGame
        /\ rafPending = 0
        /\ calls = <<>>
        /\ \A i \in 1..Len(console) : console[i] # "[INFO] Game started"

C7_Witness ==
    /\ pc = "failed"
    /\ canvas.present
    /\ error = NoContext
    /\ now > 0

\* C8: after every update the player is on the screen:
\* 20 <= x <= width - 20 and 20 <= y <= height - 20.
C8_PlayerOnScreen ==
    pc = "ready" =>
        /\ DoubleLeq(FromInt(PlayerRadius), game.playerPosition.x)
        /\ DoubleLeq(game.playerPosition.x, FromInt(CANVAS_WIDTH - PlayerRadius))
        /\ DoubleLeq(FromInt(PlayerRadius), game.playerPosition.y)
        /\ DoubleLeq(game.playerPosition.y, FromInt(CANVAS_HEIGHT - PlayerRadius))

\* an update moved the player past the top and the right edge at once, and
\* both clamps acted
C8_Witness ==
    /\ lastEvent = "frame"
    /\ game.playerPosition = Point(CANVAS_WIDTH - PlayerRadius, PlayerRadius)
    /\ \E i \in Indices("playerPosition =") :
          /\ DoubleLess(FromInt(CANVAS_WIDTH - PlayerRadius), calls[i].arg[1])
          /\ DoubleLess(calls[i].arg[2], FromInt(PlayerRadius))

Held(a, b) == a \in keys \/ b \in keys

DirectionSigns(d) ==
    /\ Sign(d.x) = (IF Held(Key_d, Key_arrowright) THEN 1 ELSE 0)
                   - (IF Held(Key_a, Key_arrowleft) THEN 1 ELSE 0)
    /\ Sign(d.y) = (IF Held(Key_s, Key_arrowdown) THEN 1 ELSE 0)
                   - (IF Held(Key_w, Key_arrowup) THEN 1 ELSE 0)

\* C9 as stated: the movement direction has length exactly 0 or 1, with the
\* signs the held keys give.
C9_DirectionExactUnit ==
    (out.op = "getMovementDirection" /\ lastEvent = "poll") =>
        /\ length(out.vec) \in {Zero, FromInt(1)}
        /\ DirectionSigns(out.vec)

\* C9 amended: the movement direction has the signs the held keys give; along
\* an axis, or with no direction held, its length is exactly 1 or 0; a
\* diagonal has length 1 within the rounding tolerance and both components
\* equal in size.
C9_DirectionUnit ==
    (out.op = "getMovementDirection" /\ lastEvent = "poll") =>
        /\ DirectionSigns(out.vec)
        /\ (IsZero(out.vec.x) /\ IsZero(out.vec.y)) => length(out.vec) = Zero
        /\ (IsZero(out.vec.x) # IsZero(out.vec.y))
               => length(out.vec) = FromInt(1)
        /\ (~IsZero(out.vec.x) /\ ~IsZero(out.vec.y)) =>
               /\ DoubleLeq(DoubleAbs(DoubleMinus(length(out.vec), FromInt(1))),
                            Tolerance)
               /\ DoubleAbs(out.vec.x) = DoubleAbs(out.vec.y)

C9_Witness ==
    /\ out.op = "getMovementDirection"
    /\ lastEvent = "poll"
    /\ keys = {Key_w, Key_arrowup, Key_s, Key_d}
    /\ out.vec = Point(1, 0)
    /\ length(out.vec) = FromInt(1)

\* no key of the model is pressed in held, and it gives no direction
NoKeyHeldIn(held) ==
    /\ \A k \in KeyNames : ~isKeyPressed(held, k)
    /\ getMovementDirection(held) = zero

NoKeyHeld == NoKeyHeldIn(keys)

\* C10: a blur leaves no key held and a zero movement direction, and that
\* stays so until a keydown arrives.
C10_BlurClearsKeys ==
    [][/\ lastEvent' = "blur" => NoKeyHeldIn(keys')
       /\ (lastEvent' # "keydown" /\ NoKeyHeld) => NoKeyHeldIn(keys')]_vars

\* a blur after a poll that saw a diagonal being held
C10_Witness ==
    /\ lastEvent = "blur"
    /\ NoKeyHeld
    /\ out.op = "getMovementDirection"
    /\ ~IsZero(out.vec.x)
    /\ ~IsZero(out.vec.y)

\* C11: the Game has one player position, at the centre of the arena once
\* the entry point has constructed and started the game, and neither start()
\* nor stop() moves it or replaces it by a new one.
C11_PlayerAtCenter ==
    [][/\ (lastEvent' = "main" /\ pc' = "ready")
              => game'.playerPosition = ArenaCenter
       /\ lastEvent' \in {"start", "stop"}
              => game'.playerPosition = game.playerPosition]_vars

\* C12: once the time simulated since the start has reached GAME_DURATION
\* the run has ended, and no later tick applies a simulation update.
C12_RunEnds ==
    (pc = "ready" /\ lastEvent = "frame" /\ now > GAME_DURATION * 1000)
        => Indices("update") = {}

\* every message the program logs
Messages ==
    {"Elemental Survivors - Starting...", CanvasNotFound, "Game initialized",
     "Game is already running", "Game started", "Game stopped",
     "Elemental Survivors - Phase 1: Core Engine Running"}

ErrorLines == {"[ERROR] " \o m : m \in Messages \cup {NoContext}}

\* C20: a successful startup logs 'Elemental Survivors - Starting...', then
\* 'Game initialized', then 'Game started', and no '[ERROR]' line is logged
\* at startup or in any later frame.
C20_StartupLog ==
    pc = "ready" =>
        /\ Len(console) >= 3
        /\ console[1] = "[INFO] Elemental Survivors - Starting..."
        /\ console[2] = "[INFO] Game initialized"
        /\ console[3] = "[INFO] Game started"
        /\ \A i \in 1..Len(console) : console[i] \notin ErrorLines

\* a frame of the running game, after the startup
C20_Witness ==
    /\ pc = "ready"
    /\ lastEvent = "frame"
    /\ game.running
    /\ now > 0
    /\ Indices("render") # {}

\* C14: the active enemies never exceed MAX_ENEMIES: a scheduler update adds
\* one enemy for each of its spawn attempts while there is room, an attempt
\* at the cap adds nothing and is not made up for later (the timer is
\* consumed all the same).
C14_PopulationCap ==
    [][/\ Len(sim'.enemies) <= MAX_ENEMIES
       /\ lastEvent' = "spawn" =>
            /\ Len(sim'.enemies) =
                   MathMin(Len(sim.enemies) + sim'.spawnAttempts, MAX_ENEMIES)
            /\ sim'.timeSinceLastSpawn < sim'.currentInterval]_vars

\* an update at the cap has skipped a spawn
C14_Witness ==
    /\ lastEvent = "spawn"
    /\ Len(sim.enemies) = MAX_ENEMIES
    /\ sim.spawned < sim.spawnAttempts

\* C15: the spawn interval is INITIAL_SPAWN_INTERVAL at elapsed time 0, never
\* grows as the elapsed time grows, and is never below MIN_SPAWN_INTERVAL.
C15_SpawnInterval ==
    /\ [](/\ getSpawnInterval(0) = INITIAL_SPAWN_INTERVAL
          /\ sim.elapsedTime = 0 => sim.currentInterval = INITIAL_SPAWN_INTERVAL
          /\ sim.currentInterval >= MIN_SPAWN_INTERVAL)
    /\ [][/\ sim'.elapsedTime >= sim.elapsedTime
          /\ sim'.currentInterval <= sim.currentInterval]_vars

\* the interval has reached its floor
C15_Witness ==
    /\ lastEvent = "spawn"
    /\ sim.currentInterval = MIN_SPAWN_INTERVAL
    /\ sim.elapsedTime > Num(SPAWN_RATE_INCREASE_INTERVAL)

\* C16: an update whose deltaTime, added to the timer, covers k spawn
\* intervals makes k spawn attempts, and the timer keeps the remainder.
C16_SpawnCatchUp ==
    [][lastEvent' = "spawn" =>
         LET total == sim.timeSinceLastSpawn + (sim'.elapsedTime - sim.elapsedTime)
             k == total \div sim'.currentInterval
         IN  /\ sim'.spawnAttempts = k
             /\ sim'.timeSinceLastSpawn = total - k * sim'.currentInterval]_vars

\* an update that spawned twice or more and carries a remainder over
C16_Witness ==
    /\ lastEvent = "spawn"
    /\ sim.spawnAttempts >= 2
    /\ sim.spawned = sim.spawnAttempts
    /\ sim.timeSinceLastSpawn > 0

\* the thresholds of the levels from, from + 1, ..., to - 1
RECURSIVE SumThresholds(_, _)
SumThresholds(from, to) ==
    IF from >= to THEN 0
    ELSE (Num(EXPERIENCE_PER_LEVEL) + from * Num(EXPERIENCE_PER_LEVEL_GROWTH))
             + SumThresholds(from + 1, to)

\* C17: after experience is added the player has less than the threshold of
\* the level reached, one level was gained for every threshold consumed, and
\* what was there plus what was added is the thresholds consumed plus what
\* is left; adding exactly the threshold gives one level-up and leaves 0.
C17_SurplusCarried ==
    [][lastEvent' = "experience" =>
         LET before == sim.player
             after == sim'.player
         IN  /\ after.experience >= 0
             /\ after.experience < Num(EXPERIENCE_PER_LEVEL)
                                       + after.level * Num(EXPERIENCE_PER_LEVEL_GROWTH)
             /\ sim'.levelUps = after.level - before.level
             /\ before.experience + args'.amount =
                    SumThresholds(before.level, after.level) + after.experience
             /\ (before.experience = 0
                   /\ args'.amount = Num(EXPERIENCE_PER_LEVEL)
                          + before.level * Num(EXPERIENCE_PER_LEVEL_GROWTH))
                  => (sim'.levelUps = 1 /\ after.experience = 0)]_vars

\* one gain has brought two level-ups and left a surplus
C17_Witness ==
    /\ lastEvent = "experience"
    /\ sim.levelUps = 2
    /\ sim.player.experience > 0
    /\ sim.state = LEVEL_UP

\* square of the distance between the centres of the circles checked
CentresSquared ==
    (args.pos2[1] - args.pos1[1]) * (args.pos2[1] - args.pos1[1])
        + (args.pos2[2] - args.pos1[2]) * (args.pos2[2] - args.pos1[2])

\* C18: two circles are reported as colliding exactly when the distance of
\* their centres is less than the sum of their radii: radii 10 and 15 collide
\* at distance 24 and do not at distance 26 (nor at 25).
C18_CircleCollision ==
    out.op = "checkCircleCollision" =>
        /\ out.hit <=> CentresSquared < (args.radius1 + args.radius2)
                                            * (args.radius1 + args.radius2)
        /\ (args.radius1 = 10 /\ args.radius2 = 15
              /\ CentresSquared = 24 * 24) => out.hit
        /\ (args.radius1 = 10 /\ args.radius2 = 15
              /\ CentresSquared >= 25 * 25) => ~out.hit

\* circles of radii 10 and 15 that touch: centres at distance exactly 25
C18_Witness ==
    /\ out.op = "checkCircleCollision"
    /\ args.radius1 = 10
    /\ args.radius2 = 15
    /\ args.pos1[1] # args.pos2[1]
    /\ args.pos1[2] # args.pos2[2]
    /\ CentresSquared = 25 * 25
    /\ distance(Point(args.pos1[1], args.pos1[2]),
                Point(args.pos2[1], args.pos2[2])) = FromInt(25)
    /\ ~out.hit

\* C13: while the run awaits the choice of an upgrade, an update with a
\* nonzero deltaTime changes no entity position, no cooldown and no spawn
\* timer, and only the selection makes the run resume.
C13_PauseInvariant ==
    [][/\ (sim.state = LEVEL_UP /\ lastEvent' = "tick") =>
            /\ sim'.state = LEVEL_UP
            /\ sim'.player.position = sim.player.position
            /\ game'.playerPosition = game.playerPosition
            /\ sim'.enemies = sim.enemies
            /\ sim'.pickups = sim.pickups
            /\ sim'.weaponCooldown = sim.weaponCooldown
            /\ sim'.damageCooldown = sim.damageCooldown
            /\ sim'.timeSinceLastSpawn = sim.timeSinceLastSpawn
            /\ sim'.elapsedTime = sim.elapsedTime
       /\ (sim.state = LEVEL_UP /\ sim'.state # LEVEL_UP) =>
            (lastEvent' = "choice" /\ sim'.state = PLAYING)]_vars

\* C19: the player takes contact damage at most once per DAMAGE_COOLDOWN and
\* its hp stays within [0, maxHp]: with an enemy of contact damage 10 on the
\* player from t = 0 and ticks of 0.1 s, damage is applied in the 1st, 11th
\* and 21st tick (t = 0, 1.0 and 2.0), so that the hp is 70 after 3.0 s.
C19_ContactDamage ==
    /\ sim.state # "none" =>
         /\ sim.player.hp >= 0
         /\ sim.player.hp <= sim.player.maxHp
         /\ sim.hits > 0 =>
              (sim.hits - 1) * Num(DAMAGE_COOLDOWN) < sim.elapsedTime - sim.startedAt
    /\ (sim.state # "none" /\ sim.scenario = "contact" /\ keys = {}
          /\ sim.ticks >= 1 /\ sim.elapsedTime = sim.ticks * 100) =>
         /\ sim.hits = 1 + (sim.ticks - 1) \div 10
         /\ sim.player.hp = Num(INITIAL_HP) - sim.hits * Num(BASIC_ENEMY_DAMAGE)
    /\ (sim.state # "none" /\ sim.scenario = "contact" /\ keys = {}
          /\ sim.ticks = 30 /\ sim.elapsedTime = Num(3)) =>
         (sim.hits = 3 /\ sim.player.hp = Num(70))

\* 3.0 s in 30 ticks with the enemy on the player
C19_Witness ==
    /\ sim.state = PLAYING
    /\ sim.scenario = "contact"
    /\ keys = {}
    /\ sim.ticks = 30
    /\ sim.elapsedTime = Num(3)
    /\ sim.hits = 3
    /\ sim.player.hp = Num(70)
    /\ checkCircleCollision(sim.player.position, FromInt(PlayerRadius),
                            sim.enemies[1].position, FromInt(BASIC_ENEMY_RADIUS))

(***************************************************************************)
(* MathUtils                                                               *)
(***************************************************************************)
\* C21: for min <= max, clamp(value, min, max) is value when it lies in
\* [min, max], min when value < min and max when value > max, and the result
\* always lies in [min, max].
C21_Clamp ==
    (out.op = "clamp" /\ DoubleLeq(args.y, args.z)) =>
        LET value == args.x
            min   == args.y
            max   == args.z
        IN  /\ (DoubleLeq(min, value) /\ DoubleLeq(value, max))
                   => NumEq(out.num, value)
            /\ DoubleLess(value, min) => NumEq(out.num, min)
            /\ DoubleLess(max, value) => NumEq(out.num, max)
            /\ DoubleLeq(min, out.num) /\ DoubleLeq(out.num, max)

\* C21 witness: a value above the range was clamped to max, max above min
C21_Witness ==
    /\ out.op = "clamp"
    /\ DoubleLess(args.y, args.z)
    /\ DoubleLess(args.z, args.x)
    /\ NumEq(out.num, args.z)

\* C22: lerp(start, end, 0) equals start and lerp(start, end, 1) equals end
\* for all start and end; t is not clamped: lerp(0, 10, 2) = 20 and
\* lerp(0, 10, -1) = -10.
C22_LerpEndpoints ==
    out.op = "lerp" =>
        /\ NumEq(args.z, FromInt(0)) => NumEq(out.num, args.x)
        /\ NumEq(args.z, FromInt(1)) => NumEq(out.num, args.y)
        /\ (args.x = FromInt(0) /\ args.y = FromInt(10) /\ args.z = FromInt(2))
               => NumEq(out.num, FromInt(20))
        /\ (args.x = FromInt(0) /\ args.y = FromInt(10) /\ args.z = FromInt(-1))
               => NumEq(out.num, FromInt(-10))

SmallIntegers == {FromInt(n) : n \in -2..10}

Between(min, k, max) == DoubleLeq(min, k) /\ DoubleLeq(k, max)

\* C23: for integers min <= max and every value of Math.random(),
\* randomInt(min, max) is an integer in [min, max], every integer of the range
\* is the result for some value of Math.random(), and randomInt(n, n) = n;
\* randomRange(min, max) lies in [min, max] and randomRange(n, n) = n.
C23_Random ==
    LET min == args.x
        max == args.y
    IN  /\ (/\ out.op = "randomInt"
            /\ IsInteger(min) /\ IsInteger(max) /\ DoubleLeq(min, max))
               => /\ IsInteger(out.num)
                  /\ Between(min, out.num, max)
                  /\ NumEq(min, max) => NumEq(out.num, min)
                  /\ (/\ out.random = FromInt(0) /\ args.z = FromInt(0)
                      /\ min \in SmallIntegers /\ max \in SmallIntegers)
                         => \A k \in SmallIntegers :
                               Between(min, k, max) =>
                                   \E random \in Randoms :
                                       NumEq(randomInt(min, max, random), k)
        /\ (out.op = "randomRange" /\ DoubleLeq(min, max))
               => /\ Between(min, out.num, max)
                  /\ NumEq(min, max) => NumEq(out.num, min)

\* C23 witness: randomInt(-2, 10) with the largest value of Math.random()
\* returned 10, and every integer from -2 to 10 is a result
C23_Witness ==
    /\ out.op = "randomInt"
    /\ args.x = FromInt(-2) /\ args.y = FromInt(10)
    /\ out.random = BelowOne
    /\ out.num = FromInt(10)
    /\ \A k \in SmallIntegers :
          \E random \in Randoms : randomInt(args.x, args.y, random) = k

(***************************************************************************)
(* Vector2 arithmetic                                                      *)
(***************************************************************************)
\* C24: add, subtract and multiply work componentwise: v.add(w) is
\* (v.x + w.x, v.y + w.y), v.subtract(w) is (v.x - w.x, v.y - w.y) and
\* v.multiply(s) is (v.x * s, v.y * s), which over whole numbers are the
\* sum, the difference and the product of the integers; hence
\* v.add(w).subtract(w) equals v and v.multiply(0) is the zero vector, over
\* integer components.
C24_Componentwise ==
    /\ out.op = "add" =>
          /\ out.vec.x = DoublePlus(va.x, vb.x)
          /\ out.vec.y = DoublePlus(va.y, vb.y)
          /\ va \in Vectors =>
                /\ NumEq(out.vec.x, FromInt(Whole(va.x) + Whole(vb.x)))
                /\ NumEq(out.vec.y, FromInt(Whole(va.y) + Whole(vb.y)))
                /\ VecEq(subtract(out.vec, vb), va)
    /\ out.op = "subtract" =>
          /\ out.vec.x = DoubleMinus(va.x, vb.x)
          /\ out.vec.y = DoubleMinus(va.y, vb.y)
          /\ va \in Vectors =>
                /\ NumEq(out.vec.x, FromInt(Whole(va.x) - Whole(vb.x)))
                /\ NumEq(out.vec.y, FromInt(Whole(va.y) - Whole(vb.y)))
    /\ out.op = "multiply" =>
          /\ out.vec.x = DoubleTimes(va.x, out.scalar)
          /\ out.vec.y = DoubleTimes(va.y, out.scalar)
          /\ (va \in Vectors /\ out.scalar = FromInt(3)) =>
                /\ NumEq(out.vec.x, FromInt(Whole(va.x) * 3))
                /\ NumEq(out.vec.y, FromInt(Whole(va.y) * 3))
          /\ (va \in Vectors /\ out.scalar = Half) =>
                VecEq(add(out.vec, out.vec), va)
          /\ NumEq(out.scalar, Zero) => VecEq(out.vec, zero)

\* C24 witness: two vectors with both components non-zero were added, and
\* subtracting the second from the sum gives the first
C24_Witness ==
    /\ out.op = "add"
    /\ va = Point(3, -2)
    /\ vb = Point(-1, 2)
    /\ out.vec = Point(2, 0)
    /\ VecEq(subtract(out.vec, vb), va)

(***************************************************************************)
(* Game loop                                                               *)
(***************************************************************************)
\* C25: whatever the interleaving of start(), stop() and animation frames, at
\* most one gameLoop callback is pending, and a frame runs update and render
\* at most once.
C25_SingleLoop ==
    /\ rafPending <= 1
    /\ lastEvent = "frame" =>
          /\ Cardinality(Indices("update")) <= 1
          /\ Cardinality(Indices("render")) <= 1

\* C26: start() on a running game only logs a warning: lastTime and every
\* other field of the game are unchanged, no update or render runs and no
\* animation frame is requested.
C26_StartWhileRunning ==
    [][(lastEvent' = "start" /\ game.running) =>
           /\ game' = game
           /\ calls' = <<>>
           /\ rafPending' = rafPending
           /\ console' = IF loggerEnabled
                         THEN Append(console, "[WARN] Game is already running")
                         ELSE console]_vars

\* C26 witness: start() was called on the running game some time after its
\* last frame, and lastTime is still the time of that frame
C26_Witness ==
    /\ lastEvent = "start"
    /\ game.running
    /\ console[Len(console)] = "[WARN] Game is already running"
    /\ game.lastTime > 0
    /\ game.lastTime < now
    /\ calls = <<>>
    /\ rafPending = 1

\* the three fields of the FPS counter
Counter(g) ==
    [fps |-> g.fps, frameCount |-> g.frameCount, fpsUpdateTime |-> g.fpsUpdateTime]

\* the counter after one more frame of deltaTime seconds
CounterAfter(c, deltaTime) ==
    IF DoubleLeq(FromInt(1), DoublePlus(c.fpsUpdateTime, deltaTime))
    THEN [fps |-> c.frameCount + 1, frameCount |-> 0, fpsUpdateTime |-> Zero]
    ELSE [fps |-> c.fps, frameCount |-> c.frameCount + 1,
          fpsUpdateTime |-> DoublePlus(c.fpsUpdateTime, deltaTime)]

\* the counter after the frames of a trace, in order
RECURSIVE CounterAfterAll(_, _)
CounterAfterAll(c, trace) ==
    IF trace = <<>> THEN c
    ELSE CounterAfterAll(
             IF Head(trace).op = "updateFPS"
             THEN CounterAfter(c, Head(trace).arg[1]) ELSE c,
             Tail(trace))

\* C27: after every frame fpsUpdateTime is below 1.0; fps changes only on a
\* frame where the accumulated time reaches 1.0, where it becomes the number
\* of frames counted since the last reset (this frame included) and
\* frameCount and fpsUpdateTime restart from 0, the time beyond 1.0 being
\* dropped.  A frame is one pass of gameLoop over updateFPS.
C27_FpsCounter ==
    /\ [](/\ DoubleLeq(Zero, game.fpsUpdateTime)
          /\ DoubleLess(game.fpsUpdateTime, FromInt(1)))
    /\ [][Counter(game') =
              IF lastEvent' \in {"main", "start", "frame"} /\ pc' = "ready"
              THEN CounterAfterAll(Counter(game), calls')
              ELSE Counter(game)]_vars

\* C27 witness: four frames a quarter of a second apart have brought the
\* accumulated time to 1.0, no more: fps is the 5 frames counted since the
\* start, and the count restarts from 0
C27_Witness ==
    /\ lastEvent = "frame"
    /\ pageCalls = 0
    /\ now = 1000
    /\ \E i \in Indices("updateFPS") :
          calls[i].arg[1] = DoubleDiv(FromInt(1), FromInt(4))
    /\ game.fps = 5
    /\ game.frameCount = 0
    /\ game.fpsUpdateTime = Zero

====
